---- MODULE Spec2Model ----
(***************************************************************************)
(* A model of the XINJECTOR state-script generator:                        *)
(*   src/xinjector_stategen/dag/state_generator.py  (StateGenerator)       *)
(* A StateGenerator owns a list of nodes, a list of links and an id        *)
(* counter.  Node factories allocate the pins of one node kind and append  *)
(* the node; link_pins validates and appends one link.                     *)
(*                                                                         *)
(* Numbers: positions and point coordinates are integers; float-valued     *)
(* configuration parameters that are only passed through are written as    *)
(* the strings of their literals ("1.0", "0.1").                           *)
(***************************************************************************)
EXTENDS Integers, Sequences, FiniteSets, TLC

(* ------------------------------------------------------------------ *)
(* Bounds of the exploration                                           *)
(* ------------------------------------------------------------------ *)
\* nodes created in all generators together
MaxNodes == 1
\* links held by one generator
MaxLinks == 1

\* links held by a generator that is handed nodes its caller built
MaxHandBuiltLinks == 2

\* factory calls started by the threads of one generator
MaxThreadCalls == 2

\* direct get_next_id calls made on one generator
MaxBareIds == 1

\* a pattern is started while the builder holds fewer nodes than this
MaxPatternNodes == 2
\* a pattern of the larger ones (beacon search, clear mobs, nexus leave) is
\* started while the builder holds fewer nodes than this
MaxBuilderNodes == 14

(* ------------------------------------------------------------------ *)
(* Constants of the program                                            *)
(* ------------------------------------------------------------------ *)
BASE_ID == 50000

\* PinType values
PT_EXECUTION == "execution"
PT_VECTOR2 == "Vector2"
PT_BOOLEAN == "bool"
PT_FLOAT == "float"

PinType == {PT_EXECUTION, PT_VECTOR2, PT_BOOLEAN, PT_FLOAT}

\* the two generator instances of the model: the one under study and another
Own == "own"
Other == "other"
GenIds == {Own, Other}

\* outcomes of link_pins: success, or the ValueError it raised
OK == "ok"
PinNotFound == "PinNotFound"
TypeMismatch == "TypeMismatch"
InvalidLinkShape == "InvalidLinkShape"
DuplicateLink == "DuplicateLink"
LinkErrors == {PinNotFound, TypeMismatch, InvalidLinkShape, DuplicateLink}

\* the empty config dict
EmptyConfig == <<>>

(* ------------------------------------------------------------------ *)
(* Pin, Node, Link                                                     *)
(* ------------------------------------------------------------------ *)
Pin(id, name, pin_type) == [id |-> id, name |-> name, pin_type |-> pin_type]

Node(node_type, position, in_pins, out_pins, config) ==
    [node_type |-> node_type, position |-> position,
     in_pins |-> in_pins, out_pins |-> out_pins, config |-> config]

Link(left_pin_id, right_pin_id) ==
    [left_pin_id |-> left_pin_id, right_pin_id |-> right_pin_id]

(* ------------------------------------------------------------------ *)
(* StateGenerator                                                      *)
(* ------------------------------------------------------------------ *)
\* StateGenerator.__init__
NewStateGenerator == [nodes |-> <<>>, links |-> <<>>, current_id |-> BASE_ID]

\* a get_next_id that forgets to advance the counter
get_next_id_stuck(gen) == [gen |-> gen, id |-> gen.current_id + 1]

\* get_next_id: advance the counter and return it
get_next_id(gen) ==
    LET g2 == [gen EXCEPT !.current_id = gen.current_id + 1]
    IN  [gen |-> g2, id |-> g2.current_id]

\* the steps of get_next_id, "self.current_id += 1; return self.current_id":
\* the read of current_id, the addition on the value read, the write-back of
\* the sum, and the read of current_id for the value returned
read_current_id(gen) == gen.current_id
increment(value) == value + 1
\* a write-back that is lost
write_back_lost(gen, value) == gen
write_back(gen, value) == [gen EXCEPT !.current_id = value]

\* _create_pin
create_pin(gen, name, pin_type) ==
    LET r == get_next_id(gen)
    IN  [gen |-> r.gen, pin |-> Pin(r.id, name, pin_type)]

\* a list of _create_pin calls, evaluated left to right; specs is a sequence
\* of <<name, pin_type>>
RECURSIVE create_pins(_, _)
create_pins(gen, specs) ==
    IF specs = <<>> THEN [gen |-> gen, pins |-> <<>>]
    ELSE LET first == create_pin(gen, specs[1][1], specs[1][2])
             rest == create_pins(first.gen, Tail(specs))
         IN  [gen |-> rest.gen, pins |-> <<first.pin>> \o rest.pins]

\* a factory that puts its node at the head of self.nodes
make_node_at_head(gen, node_type, position, in_specs, out_specs, config) ==
    LET ins == create_pins(gen, in_specs)
        outs == create_pins(ins.gen, out_specs)
        node == Node(node_type, position, ins.pins, outs.pins, config)
    IN  [gen |-> [outs.gen EXCEPT !.nodes = <<node>> \o outs.gen.nodes],
         node |-> node]

\* the body shared by every factory: the in_pins list is built first, then the
\* out_pins list, then the node is appended to self.nodes and returned
make_node(gen, node_type, position, in_specs, out_specs, config) ==
    LET ins == create_pins(gen, in_specs)
        outs == create_pins(ins.gen, out_specs)
        node == Node(node_type, position, ins.pins, outs.pins, config)
    IN  [gen |-> [outs.gen EXCEPT !.nodes = Append(outs.gen.nodes, node)],
         node |-> node]

\* _create_pin's arguments: the default pin type is EXECUTION
E(name) == <<name, PT_EXECUTION>>
V(name) == <<name, PT_VECTOR2>>
B(name) == <<name, PT_BOOLEAN>>
F(name) == <<name, PT_FLOAT>>

create_start_node(gen, name, position) ==
    make_node(gen, "Start", position, <<E("In")>>, <<>>, [nodeName |-> name])

create_sequence(gen, position) ==
    make_node(gen, "Sequence", position,
              <<E("In"), E("In 2"), E("In 3"), E("In 4"), E("In 5")>>,
              <<E("Out")>>, EmptyConfig)

create_if_node(gen, position) ==
    make_node(gen, "If", position,
              <<E("True"), E("False"), B("Condition")>>, <<E("Out")>>, EmptyConfig)

create_push_node(gen, target_state, position) ==
    make_node(gen, "PushNode", position, <<>>, <<E("Out")>>, [name |-> target_state])

create_wait(gen, wait_time, position) ==
    make_node(gen, "Wait", position, <<E("In")>>, <<E("Out")>>, [waitTime |-> wait_time])

\* an EnemyList that allocates its ID output only when it has ids to scan for
create_enemy_list_by_ids(gen, enemy_ids, position, object_type, sort_type, ignore_invul) ==
    make_node(gen, "EnemyList", position, <<>>,
              IF enemy_ids = <<>> THEN <<V("Pos"), B("Exists")>>
              ELSE <<V("Pos"), B("Exists"), F("ID")>>,
              [enemyList |-> enemy_ids, objectType |-> object_type,
               sortType |-> sort_type, ignoreInvul |-> ignore_invul])

create_enemy_list(gen, enemy_ids, position, object_type, sort_type, ignore_invul) ==
    make_node(gen, "EnemyList", position, <<>>,
              <<V("Pos"), B("Exists"), F("ID")>>,
              [enemyList |-> enemy_ids, objectType |-> object_type,
               sortType |-> sort_type, ignoreInvul |-> ignore_invul])

create_player_pos(gen, position) ==
    make_node(gen, "PlayerPos", position, <<>>, <<V("Pos")>>, EmptyConfig)

create_point(gen, x, y, position) ==
    make_node(gen, "Point", position, <<>>, <<V("Pos")>>,
              [point |-> [x |-> x, y |-> y]])

create_point_list(gen, points, position, randomize, switch_distance) ==
    make_node(gen, "PointList", position, <<>>, <<V("Pos")>>,
              [pointList |-> [i \in 1..Len(points) |->
                                 [x |-> points[i][1], y |-> points[i][2]]],
               randomize |-> randomize, switchDistance |-> switch_distance])

create_move_to(gen, position, teleport, teleport_once) ==
    make_node(gen, "MoveTo", position, <<E("In"), V("Position")>>, <<E("Out")>>,
              [teleport |-> teleport, teleportOnce |-> teleport_once])

create_enter_portal(gen, position) ==
    make_node(gen, "EnterPortal", position, <<E("In"), F("Portal ID")>>,
              <<E("Out")>>, EmptyConfig)

create_map_change(gen, map_name, position) ==
    make_node(gen, "MapChange", position, <<E("In")>>, <<>>, [mapName |-> map_name])

create_operator(gen, position, operator_type, towards_distance) ==
    make_node(gen, "Operator", position,
              <<V("A"), V("B"), F("Val")>>, <<V("Result"), F("Distance")>>,
              [operatorType |-> operator_type, towardsDistance |-> towards_distance])

create_comparison(gen, position, comparison_type, val_to_compare) ==
    make_node(gen, "Comparison", position, <<F("A")>>, <<B("Result")>>,
              [comparisonType |-> comparison_type, valToCompare |-> val_to_compare])

\* a SavePos whose saved-position output carries the name of its input
create_save_pos_same_name(gen, position, persistent) ==
    make_node(gen, "SavePos", position, <<E("In"), V("Pos")>>,
              <<E("Out"), V("Pos"), B("Has Value")>>,
              [persistentPos |-> persistent])

create_save_pos(gen, position, persistent) ==
    make_node(gen, "SavePos", position, <<E("In"), V("Pos")>>,
              <<E("Out"), V("Saved Pos"), B("Has Value")>>,
              [persistentPos |-> persistent])

create_use_item(gen, item_id, position) ==
    make_node(gen, "UseItem", position, <<E("In")>>, <<E("Out"), B("Has")>>,
              [itemId |-> item_id])

create_send_message(gen, message, position, delay_ms) ==
    make_node(gen, "SendMessageL", position, <<E("In")>>, <<E("Out")>>,
              [message |-> message, delayMs |-> delay_ms, sendWithDelay |-> delay_ms > 0])

create_received_message(gen, from_player, content, position) ==
    make_node(gen, "ReceivedMessage", position, <<E("In")>>, <<E("Out")>>,
              [from |-> from_player, content |-> content])

create_group(gen, position, epsilon, max_dist) ==
    make_node(gen, "Group", position, <<>>, <<V("Center")>>,
              [epsilon |-> epsilon, maxDistanceFromPlayer |-> max_dist])

create_hotkey(gen, position) ==
    make_node(gen, "Hotkey", position,
              <<E("None"), E("Pressed"), E("Held")>>, <<E("Out")>>,
              [hotkeyName |-> "",
               nodehotkey |-> [isAlt |-> FALSE, isCtrl |-> FALSE, isShift |-> FALSE, key |-> 0]])

create_player_count(gen, position, exclude_wl) ==
    make_node(gen, "PlayerCount", position, <<>>, <<F("Count")>>,
              [excludeWLPlayers |-> exclude_wl])

create_status_level(gen, position, status_type) ==
    make_node(gen, "StatusLevel", position, <<>>, <<F("Level")>>,
              [statusType |-> status_type])

create_switch_server(gen, position) ==
    make_node(gen, "SwitchServer", position, <<>>, <<E("Out")>>, EmptyConfig)

create_connect_to_quest(gen, position, max_pop) ==
    make_node(gen, "ConnectToQuest", position, <<>>, <<E("Out")>>,
              [selectedQuestType |-> <<>>, maxRealmPopCount |-> max_pop,
               minRealmPopCount |-> 0])

create_nexus(gen, position) ==
    make_node(gen, "Nexus", position, <<>>, <<E("Out")>>, EmptyConfig)

create_reset_tile_cache(gen, position) ==
    make_node(gen, "ResetTileCache", position, <<>>, <<E("Out")>>, EmptyConfig)

create_offset_pos(gen, position, dist) ==
    make_node(gen, "OffsetPos", position, <<V("Pos")>>, <<V("Result")>>,
              [offsetDist |-> dist])


(* ------------------------------------------------------------------ *)
(* link_pins                                                           *)
(* ------------------------------------------------------------------ *)
\* the pins of the list that carry the given name, in list order; the loops
\* "for pin in pins: if pin.name == name: ...; break" take the first of them
pins_named(pins, name) == SelectSeq(pins, LAMBDA pin : pin.name = name)

\* a pin that stands for None
NoPin == Pin(0, "", "")

\* the outcome of the two lookup loops of one side: the first array's hit if
\* there is one, else the second array's hit, else None
resolve(first_hits, first_is_out, second_hits) ==
    IF first_hits # <<>>
    THEN [pin |-> first_hits[1], found |-> TRUE, is_out |-> first_is_out]
    ELSE IF second_hits # <<>>
    THEN [pin |-> second_hits[1], found |-> TRUE, is_out |-> ~first_is_out]
    ELSE [pin |-> NoPin, found |-> FALSE, is_out |-> FALSE]

\* a source lookup that never falls back to in_pins
resolve_source_out_only(source_node, source_pin_name) ==
    resolve(pins_named(source_node.out_pins, source_pin_name), TRUE, <<>>)

\* the source side: out_pins first, then in_pins
resolve_source(source_node, source_pin_name) ==
    resolve(pins_named(source_node.out_pins, source_pin_name), TRUE,
            pins_named(source_node.in_pins, source_pin_name))

\* a target lookup in the order of the source lookup: out_pins first
resolve_target_out_first(target_node, target_pin_name) ==
    resolve(pins_named(target_node.out_pins, target_pin_name), TRUE,
            pins_named(target_node.in_pins, target_pin_name))

\* a target lookup that never falls back to out_pins
resolve_target_in_only(target_node, target_pin_name) ==
    resolve(pins_named(target_node.in_pins, target_pin_name), FALSE, <<>>)

\* the target side: in_pins first, then out_pins
resolve_target(target_node, target_pin_name) ==
    resolve(pins_named(target_node.in_pins, target_pin_name), FALSE,
            pins_named(target_node.out_pins, target_pin_name))

\* a type check that lets a float feed a Vector2
type_mismatch_coercing(source_pin, target_pin) ==
    /\ source_pin.pin_type # target_pin.pin_type
    /\ {source_pin.pin_type, target_pin.pin_type} # {PT_FLOAT, PT_VECTOR2}

\* source_pin.pin_type != target_pin.pin_type
type_mismatch(source_pin, target_pin) ==
    source_pin.pin_type # target_pin.pin_type

\* a mapping that keeps the caller's argument order
link_sides_unswapped(s, t) ==
    IF s.is_out # t.is_out
    THEN [ok |-> TRUE, left_pin |-> s.pin, right_pin |-> t.pin]
    ELSE [ok |-> FALSE, left_pin |-> NoPin, right_pin |-> NoPin]

\* a mapping without the else branch: two pins of one array class are linked
link_sides_unchecked(s, t) ==
    IF s.is_out
    THEN [ok |-> TRUE, left_pin |-> s.pin, right_pin |-> t.pin]
    ELSE [ok |-> TRUE, left_pin |-> t.pin, right_pin |-> s.pin]

\* left = the pin from an out_pins array, right = the pin from an in_pins
\* array; s and t are the resolved source and target
link_sides(s, t) ==
    IF s.is_out /\ ~t.is_out
    THEN [ok |-> TRUE, left_pin |-> s.pin, right_pin |-> t.pin]
    ELSE IF ~s.is_out /\ t.is_out
    THEN [ok |-> TRUE, left_pin |-> t.pin, right_pin |-> s.pin]
    ELSE [ok |-> FALSE, left_pin |-> NoPin, right_pin |-> NoPin]

\* a duplicate check that refuses a second link into a linked input
is_duplicate_same_right(links, left_pin, right_pin) ==
    \E k \in 1..Len(links) : links[k].right_pin_id = right_pin.id

\* a duplicate check that refuses a second link from a linked output
is_duplicate_same_left(links, left_pin, right_pin) ==
    \E k \in 1..Len(links) : links[k].left_pin_id = left_pin.id

\* a duplicate check that also refuses the reversed pair
is_duplicate_either_order(links, left_pin, right_pin) ==
    \E k \in 1..Len(links) :
        \/ links[k].left_pin_id = left_pin.id /\ links[k].right_pin_id = right_pin.id
        \/ links[k].left_pin_id = right_pin.id /\ links[k].right_pin_id = left_pin.id

\* a duplicate check that compares nothing
is_duplicate_never(links, left_pin, right_pin) == FALSE

\* any(l.left_pin_id == left_pin.id and l.right_pin_id == right_pin.id ...)
is_duplicate(links, left_pin, right_pin) ==
    \E k \in 1..Len(links) :
        links[k].left_pin_id = left_pin.id /\ links[k].right_pin_id = right_pin.id

\* an append that draws an id for the link from the generator's counter
append_link_numbered(gen, left_pin, right_pin) ==
    [gen EXCEPT !.links = Append(gen.links, Link(left_pin.id, right_pin.id)),
                !.current_id = gen.current_id + 1]

\* an append that puts the new link first
append_link_front(gen, left_pin, right_pin) ==
    [gen EXCEPT !.links = <<Link(left_pin.id, right_pin.id)>> \o gen.links]

\* self.links.append(Link(left_pin.id, right_pin.id))
append_link(gen, left_pin, right_pin) ==
    [gen EXCEPT !.links = Append(gen.links, Link(left_pin.id, right_pin.id))]

\* the outcome of a link_pins call that raised: the generator as the raise
\* left it, and the error
Raise(gen, error) == [gen |-> gen, err |-> error]

\* a duplicate check made after the append
check_duplicate_late(gen, sides) ==
    IF ~sides.ok THEN Raise(gen, InvalidLinkShape)
    ELSE IF is_duplicate(gen.links, sides.left_pin, sides.right_pin)
    THEN Raise(append_link(gen, sides.left_pin, sides.right_pin), DuplicateLink)
    ELSE [gen |-> append_link(gen, sides.left_pin, sides.right_pin), err |-> OK]

\* the end of link_pins: the shape error of the else branch, the duplicate
\* check and the append
check_duplicate(gen, sides) ==
    IF ~sides.ok THEN Raise(gen, InvalidLinkShape)
    ELSE IF is_duplicate(gen.links, sides.left_pin, sides.right_pin)
    THEN Raise(gen, DuplicateLink)
    ELSE [gen |-> append_link(gen, sides.left_pin, sides.right_pin), err |-> OK]

\* a link_pins that maps the arrays to the link's sides before it compares
\* the pin types
check_and_link_shape_first(gen, s, t) ==
    IF ~s.found \/ ~t.found THEN Raise(gen, PinNotFound)
    ELSE IF ~link_sides(s, t).ok THEN Raise(gen, InvalidLinkShape)
    ELSE IF type_mismatch(s.pin, t.pin) THEN Raise(gen, TypeMismatch)
    ELSE check_duplicate(gen, link_sides(s, t))

\* link_pins from the "Pin not found" check on; s and t are the resolved
\* source and target
check_and_link(gen, s, t) ==
    IF ~s.found \/ ~t.found THEN Raise(gen, PinNotFound)
    ELSE IF type_mismatch(s.pin, t.pin) THEN Raise(gen, TypeMismatch)
    ELSE check_duplicate(gen, link_sides(s, t))

\* link_pins: the generator after the call and the outcome
link_pins(gen, source_node, source_pin_name, target_node, target_pin_name) ==
    check_and_link(gen, resolve_source(source_node, source_pin_name),
                   resolve_target(target_node, target_pin_name))

(* ------------------------------------------------------------------ *)
(* Serialization: to_dict, generate, save                              *)
(* ------------------------------------------------------------------ *)
\* A JSON document is modelled by the value json.dumps encodes: an object
\* is a function from its keys, an array a sequence, a float a tagged number.
GenerateFailed == "GenerateFailed"

\* float(v) of a coordinate: the JSON number written with a fraction part
to_float(v) == [float |-> v]

Pin_to_dict(pin) == [id |-> pin.id, name |-> pin.name]

Link_to_dict_swapped(link) ==
    [leftPinID |-> link.right_pin_id, rightPinID |-> link.left_pin_id]

Link_to_dict(link) ==
    [leftPinID |-> link.left_pin_id, rightPinID |-> link.right_pin_id]

pins_to_dicts(pins) == [i \in 1..Len(pins) |-> Pin_to_dict(pins[i])]

\* position[0] and position[1] exist
to_dict_raises(node) == Len(node.position) < 2

\* Node.to_dict: the two fixed keys, inPins and outPins only when the array
\* is not empty, then result.update(config): a config key replaces an equal
\* key written before
Node_to_dict(node) ==
    node.config
    @@ (IF node.out_pins # <<>> THEN [outPins |-> pins_to_dicts(node.out_pins)] ELSE <<>>)
    @@ (IF node.in_pins # <<>> THEN [inPins |-> pins_to_dicts(node.in_pins)] ELSE <<>>)
    @@ [nodeType |-> node.node_type,
        position |-> [x |-> to_float(node.position[1]),
                      y |-> to_float(node.position[2])]]

document(gen) ==
    [links |-> [i \in 1..Len(gen.links) |-> Link_to_dict(gen.links[i])],
     nodes |-> [i \in 1..Len(gen.nodes) |-> Node_to_dict(gen.nodes[i])],
     version |-> "1.0"]

\* the graph is emptied once it is serialized
generate_consuming(gen) ==
    IF \E i \in 1..Len(gen.nodes) : to_dict_raises(gen.nodes[i])
    THEN [gen |-> gen, err |-> GenerateFailed, doc |-> <<>>]
    ELSE [gen |-> [gen EXCEPT !.nodes = <<>>, !.links = <<>>],
          err |-> OK, doc |-> <<document(gen)>>]

\* generate: the generator after the call, the outcome and, when it returned,
\* the document (as a one-element sequence)
generate(gen) ==
    IF \E i \in 1..Len(gen.nodes) : to_dict_raises(gen.nodes[i])
    THEN [gen |-> gen, err |-> GenerateFailed, doc |-> <<>>]
    ELSE [gen |-> gen, err |-> OK, doc |-> <<document(gen)>>]

\* the destination file: absent, or present with the texts written to it
NoFile == [exists |-> FALSE, data |-> <<>>]
open_w(f) == [exists |-> TRUE, data |-> <<>>]
write(f, text) == [f EXCEPT !.data = @ \o <<text>>]

\* save, statement by statement from the last to the first: open(filename,
\* 'w') creates or truncates the file, then generate() is evaluated, then its
\* result is written; an error raised by generate() leaves the with block
save_write(f, r) ==
    IF r.err # OK THEN [gen |-> r.gen, err |-> r.err, file |-> f]
    ELSE [gen |-> r.gen, err |-> OK, file |-> write(f, r.doc[1])]

save(gen, f) == save_write(open_w(f), generate(gen))

(* ------------------------------------------------------------------ *)
(* WorkflowBuilder: the patterns over its StateGenerator               *)
(* ------------------------------------------------------------------ *)
\* layout constants
H_SPACE == 200
DATA_OFFSET == -150

\* an Optional argument: None, or a value
None == <<>>
Some(v) == <<v>>

\* a pattern call: the generator after it, its outcome and, when it returned,
\* its PatternNodes (the nodes by role); an error raised by a link inside the
\* pattern ends the pattern there
Returned(gen, nodes) == [gen |-> gen, err |-> OK, nodes |-> nodes]
Raised(r) == [gen |-> r.gen, err |-> r.err, nodes |-> <<>>]
Bundle(r, nodes) == IF r.err # OK THEN Raised(r) ELSE Returned(r.gen, nodes)

link_exec(gen, from_node, from_pin, to_node, to_pin) ==
    link_pins(gen, from_node, from_pin, to_node, to_pin)

link_data(gen, from_node, from_pin, to_node, to_pin) ==
    link_pins(gen, from_node, from_pin, to_node, to_pin)

\* a find-target whose two nodes are returned without the data link
find_target_link_forgotten(finder, check) ==
    Returned(check.gen, [finder |-> finder, check |-> check.node])

\* create_find_target, statement by statement from the last to the first
find_target_link(finder, check) ==
    Bundle(link_data(check.gen, finder, "Exists", check.node, "Condition"),
           [finder |-> finder, check |-> check.node])

find_target_check(finder, position) ==
    find_target_link(finder.node,
                     create_if_node(finder.gen, <<position[1] - H_SPACE, position[2]>>))

create_find_target(gen, enemy_ids, position, object_type) ==
    find_target_check(create_enemy_list(gen, enemy_ids, position, object_type, 0, FALSE),
                      position)

\* a move-to-target that keeps the offset node out of the returned roles
move_to_target_link_move_only(offset, move) ==
    Bundle(link_data(move.gen, offset, "Result", move.node, "Position"),
           [move |-> move.node])

\* create_move_to_target
move_to_target_link(offset, move) ==
    Bundle(link_data(move.gen, offset, "Result", move.node, "Position"),
           [offset |-> offset, move |-> move.node])

move_to_target_move(offset, position, teleport) ==
    move_to_target_link(offset.node,
                        create_move_to(offset.gen, <<position[1] - H_SPACE, position[2]>>,
                                       teleport, FALSE))

move_to_target_only(move) == Returned(move.gen, [move |-> move.node])

create_move_to_target(gen, position, teleport, offset_dist) ==
    IF offset_dist # None
    THEN move_to_target_move(create_offset_pos(gen, position, offset_dist[1]),
                             position, teleport)
    ELSE move_to_target_only(create_move_to(gen, position, teleport, FALSE))

\* create_portal_entry
portal_entry_portal(portal) == Returned(portal.gen, [portal |-> portal.node])

create_portal_entry(gen, position) ==
    portal_entry_portal(create_enter_portal(gen, position))

\* create_distance_check, statement by statement from the last to the first
distance_check_link_check(player, target, operator, comparison, check) ==
    Bundle(link_data(check.gen, comparison, "Result", check.node, "Condition"),
           [player |-> player, target |-> target, operator |-> operator,
            comparison |-> comparison, check |-> check.node])

distance_check_check(r, player, target, operator, comparison, position) ==
    IF r.err # OK THEN Raised(r)
    ELSE distance_check_link_check(player, target, operator, comparison,
                                   create_if_node(r.gen, position))

distance_check_link_comparison(player, target, operator, comparison, position) ==
    distance_check_check(
        link_data(comparison.gen, operator, "Distance", comparison.node, "A"),
        player, target, operator, comparison.node, position)

distance_check_comparison(r, player, target, operator, position, threshold) ==
    IF r.err # OK THEN Raised(r)
    ELSE distance_check_link_comparison(
             player, target, operator,
             create_comparison(r.gen,
                               <<position[1] - 2 * H_SPACE, position[2] + DATA_OFFSET>>,
                               2, threshold),
             position)

distance_check_link_target(r, player, target, operator, position, threshold) ==
    IF r.err # OK THEN Raised(r)
    ELSE distance_check_comparison(link_data(r.gen, target, "Pos", operator, "B"),
                                   player, target, operator, position, threshold)

distance_check_link_player(player, target, operator, position, threshold) ==
    distance_check_link_target(
        link_data(operator.gen, player, "Pos", operator.node, "A"),
        player, target, operator.node, position, threshold)

distance_check_operator(player, target, position, threshold) ==
    distance_check_link_player(
        player, target.node,
        create_operator(target.gen, <<position[1] - H_SPACE, position[2] + DATA_OFFSET>>,
                        0, "0.0"),
        position, threshold)

distance_check_target(player, target_point, position, threshold) ==
    distance_check_operator(
        player.node,
        create_point_list(player.gen, <<target_point>>,
                          <<position[1], position[2] + DATA_OFFSET>>, FALSE, "1.0"),
        position, threshold)

create_distance_check(gen, target_point, position, threshold) ==
    distance_check_target(
        create_player_pos(gen, <<position[1] + H_SPACE, position[2] + DATA_OFFSET>>),
        target_point, position, threshold)

\* create_patrol
patrol_link(pointlist, move) ==
    Bundle(link_data(move.gen, pointlist, "Pos", move.node, "Position"),
           [pointlist |-> pointlist, move |-> move.node])

patrol_move(pointlist, position) ==
    patrol_link(pointlist.node,
                create_move_to(pointlist.gen, <<position[1] - H_SPACE, position[2]>>,
                               FALSE, FALSE))

create_patrol(gen, waypoints, position, switch_distance) ==
    patrol_move(create_point_list(gen, waypoints, position, FALSE, switch_distance),
                position)

\* WorkflowBuilder.create_wait
builder_wait_wait(wait) == Returned(wait.gen, [wait |-> wait.node])

builder_create_wait(gen, wait_ms, position) ==
    builder_wait_wait(create_wait(gen, wait_ms, position))

\* a pattern in progress: the generator, the outcome so far and the roles
\* bound so far; after a raise no later statement has an effect
Begin(gen) == [gen |-> gen, err |-> OK, nodes |-> <<>>]

\* result[role] = <factory call>
bound(b, role, created) ==
    [gen |-> created.gen, err |-> OK, nodes |-> (role :> created.node) @@ b.nodes]

\* self.gen.<factory>(<arguments>): c is the factory's name followed by its
\* arguments
call_factory(gen, c) ==
    CASE c[1] = "create_start_node" -> create_start_node(gen, c[2], c[3])
      [] c[1] = "create_sequence" -> create_sequence(gen, c[2])
      [] c[1] = "create_if_node" -> create_if_node(gen, c[2])
      [] c[1] = "create_move_to" -> create_move_to(gen, c[2], c[3], c[4])
      [] c[1] = "create_player_pos" -> create_player_pos(gen, c[2])
      [] c[1] = "create_point_list" -> create_point_list(gen, c[2], c[3], c[4], c[5])
      [] c[1] = "create_operator" -> create_operator(gen, c[2], c[3], c[4])
      [] c[1] = "create_comparison" -> create_comparison(gen, c[2], c[3], c[4])
      [] c[1] = "create_push_node" -> create_push_node(gen, c[2], c[3])
      [] c[1] = "create_enemy_list" -> create_enemy_list(gen, c[2], c[3], c[4], c[5], c[6])
      [] c[1] = "create_offset_pos" -> create_offset_pos(gen, c[2], c[3])
      [] c[1] = "create_enter_portal" -> create_enter_portal(gen, c[2])
      [] c[1] = "create_map_change" -> create_map_change(gen, c[2], c[3])
      [] c[1] = "create_wait" -> create_wait(gen, c[2], c[3])
      [] c[1] = "create_point" -> create_point(gen, c[2], c[3], c[4])

\* the pattern so far, b, is evaluated once and named v
add(b, role, c) ==
    CHOOSE r \in { IF v.err # OK THEN v ELSE bound(v, role, call_factory(v.gen, c)) :
                       v \in {b} } : TRUE

\* self.link_data(result[from], from_pin, result[to], to_pin), and link_exec
linked(b, r) == [gen |-> r.gen, err |-> r.err, nodes |-> b.nodes]

link_roles(b, from_role, from_pin, to_role, to_pin) ==
    CHOOSE r \in { IF v.err # OK THEN v
                   ELSE linked(v, link_data(v.gen, v.nodes[from_role], from_pin,
                                            v.nodes[to_role], to_pin)) :
                       v \in {b} } : TRUE

\* the statements of a pattern run in order on the pattern so far: a
\* statement is result[role] = <factory call>, written <<"add", role, call>>,
\* or a link between two roles, written <<"link", from, from_pin, to, to_pin>>
statement(b, s) ==
    IF s[1] = "add" THEN add(b, s[2], s[3])
    ELSE link_roles(b, s[2], s[3], s[4], s[5])

\* the pattern after the first statement, v, and the statements left, rest,
\* are evaluated once
RECURSIVE run(_, _)
run(b, statements) ==
    IF statements = <<>> THEN b
    ELSE CHOOSE r \in { run(v, rest) : v \in {statement(b, statements[1])},
                                       rest \in {Tail(statements)} } : TRUE

\* return result
finish(b) ==
    CHOOSE r \in { IF v.err # OK THEN Raised(v) ELSE Returned(v.gen, v.nodes) :
                       v \in {b} } : TRUE

DEPTH_SPACE == 200

\* str.replace(old, new) for a non-empty old: every occurrence of old, found
\* left to right without overlap, becomes new
RECURSIVE str_replace(_, _, _)
str_replace(s, old, new) ==
    IF Len(s) < Len(old) THEN s
    ELSE IF SubSeq(s, 1, Len(old)) = old
         THEN new \o str_replace(SubSeq(s, Len(old) + 1, Len(s)), old, new)
         ELSE SubSeq(s, 1, 1) \o str_replace(Tail(s), old, new)

\* next_state.replace("_clear", "_beacon")
replace_clear_beacon(next_state) == str_replace(next_state, "_clear", "_beacon")

\* the earlier looped design: enemy_move triggers distance_check again
beacon_search_exec_links_looped(b) ==
    run(b, <<
        <<"link", "start", "In", "sequence", "Out">>,
        <<"link", "sequence", "In", "distance_check", "Out">>,
        <<"link", "distance_check", "False", "teleport_move", "Out">>,
        <<"link", "distance_check", "True", "enemy_check", "Out">>,
        <<"link", "enemy_check", "True", "enemy_move", "Out">>,
        <<"link", "enemy_move", "In", "distance_check", "Out">>,
        <<"link", "enemy_check", "False", "push_next", "Out">> >>)

\* the execution links of create_beacon_search
beacon_search_exec_links(b) ==
    run(b, <<
        <<"link", "start", "In", "sequence", "Out">>,
        <<"link", "sequence", "In", "distance_check", "Out">>,
        <<"link", "distance_check", "False", "teleport_move", "Out">>,
        <<"link", "distance_check", "True", "enemy_check", "Out">>,
        <<"link", "enemy_check", "True", "enemy_move", "Out">>,
        <<"link", "enemy_check", "False", "push_next", "Out">> >>)

\* the node creations and the data links of create_beacon_search, with
\* data_y = y + DATA_OFFSET, depth1_y = y + DEPTH_SPACE and
\* enemy_data_y = y + DEPTH_SPACE / 2
beacon_search_nodes(gen, beacon_enemy_id, beacon_position, next_state, x, y, distance_threshold) ==
    run(Begin(gen), <<
        <<"add", "start",
          <<"create_start_node", replace_clear_beacon(next_state), <<x, y>>>>>>,
        <<"add", "sequence", <<"create_sequence", <<x - H_SPACE, y>>>>>>,
        <<"add", "distance_check", <<"create_if_node", <<x - 2 * H_SPACE, y>>>>>>,
        <<"add", "teleport_move",
          <<"create_move_to", <<x - 3 * H_SPACE, y>>, TRUE, FALSE>>>>,
        <<"add", "player_pos", <<"create_player_pos", <<x - H_SPACE, y + DATA_OFFSET>>>>>>,
        <<"add", "beacon_point",
          <<"create_point_list", <<beacon_position>>, <<x - 2 * H_SPACE, y + DATA_OFFSET>>,
            FALSE, "1.0">>>>,
        <<"add", "operator",
          <<"create_operator", <<x - 3 * H_SPACE, y + DATA_OFFSET>>, 0, "0.0">>>>,
        <<"add", "comparison",
          <<"create_comparison", <<x - 4 * H_SPACE, y + DATA_OFFSET>>, 2,
            distance_threshold>>>>,
        <<"add", "enemy_check", <<"create_if_node", <<x - 2 * H_SPACE, y + DEPTH_SPACE>>>>>>,
        <<"add", "enemy_move",
          <<"create_move_to", <<x - 3 * H_SPACE, y + DEPTH_SPACE>>, FALSE, FALSE>>>>,
        <<"add", "push_next",
          <<"create_push_node", next_state,
            <<x - 3 * H_SPACE, (y + DEPTH_SPACE) + DEPTH_SPACE>>>>>>,
        <<"add", "enemy_finder",
          <<"create_enemy_list", <<beacon_enemy_id>>,
            <<x - 3 * H_SPACE, y + (DEPTH_SPACE \div 2)>>, 0, 0, FALSE>>>>,
        <<"add", "enemy_offset",
          <<"create_offset_pos", <<x - 4 * H_SPACE, (y + (DEPTH_SPACE \div 2)) + 50>>,
            "2.5">>>>,
        <<"link", "player_pos", "Pos", "operator", "A">>,
        <<"link", "beacon_point", "Pos", "operator", "B">>,
        <<"link", "operator", "Distance", "comparison", "A">>,
        <<"link", "comparison", "Result", "distance_check", "Condition">>,
        <<"link", "beacon_point", "Pos", "teleport_move", "Position">>,
        <<"link", "enemy_finder", "Exists", "enemy_check", "Condition">>,
        <<"link", "enemy_finder", "Pos", "enemy_offset", "Pos">>,
        <<"link", "enemy_offset", "Result", "enemy_move", "Position">> >>)

create_beacon_search(gen, beacon_enemy_id, beacon_position, next_state, position, distance_threshold) ==
    finish(beacon_search_exec_links(
               beacon_search_nodes(gen, beacon_enemy_id, beacon_position, next_state,
                                   position[1], position[2], distance_threshold)))

\* create_clear_mobs: start, the patrol move and its waypoints
clear_mobs_patrol(gen, patrol_waypoints, x, y) ==
    run(Begin(gen), <<
        <<"add", "start", <<"create_start_node", "clear_mobs", <<x, y>>>>>>,
        <<"add", "patrol_move", <<"create_move_to", <<x - H_SPACE, y>>, FALSE, FALSE>>>>,
        <<"add", "patrol_points",
          <<"create_point_list", patrol_waypoints, <<x - H_SPACE, y + DATA_OFFSET>>,
            FALSE, "2.0">>>>,
        <<"link", "patrol_points", "Pos", "patrol_move", "Position">> >>)

\* create_clear_mobs: the portal branch (the statements under has_portal)
clear_mobs_portal(b, portal_id, x, y) ==
    run(b, <<
        <<"add", "portal_check", <<"create_if_node", <<x - 2 * H_SPACE, y>>>>>>,
        <<"add", "portal_finder",
          <<"create_enemy_list", <<portal_id>>, <<x - 2 * H_SPACE, y + DATA_OFFSET>>,
            1, 0, FALSE>>>>,
        <<"link", "portal_finder", "Exists", "portal_check", "Condition">>,
        <<"add", "portal_move", <<"create_move_to", <<x - 3 * H_SPACE, y>>, FALSE, FALSE>>>>,
        <<"link", "portal_finder", "Pos", "portal_move", "Position">>,
        <<"add", "portal_enter", <<"create_enter_portal", <<x - 4 * H_SPACE, y>>>>>>,
        <<"link", "portal_finder", "ID", "portal_enter", "Portal ID">>,
        <<"link", "portal_check", "True", "portal_move", "Out">>,
        <<"link", "portal_move", "In", "portal_enter", "Out">> >>)

\* create_clear_mobs: the enemy check, one depth below, with
\* enemy_depth_y = y + DEPTH_SPACE and enemy_data_y = y + DEPTH_SPACE / 2
clear_mobs_enemy(b, enemy_ids, enemy_offset_dist, x, y) ==
    run(b, <<
        <<"add", "enemy_check", <<"create_if_node", <<x - 2 * H_SPACE, y + DEPTH_SPACE>>>>>>,
        <<"add", "enemy_finder",
          <<"create_enemy_list", enemy_ids, <<x - 2 * H_SPACE, y + (DEPTH_SPACE \div 2)>>,
            0, 0, FALSE>>>>,
        <<"link", "enemy_finder", "Exists", "enemy_check", "Condition">>,
        <<"add", "enemy_offset",
          <<"create_offset_pos", <<x - 3 * H_SPACE, y + DEPTH_SPACE>>, enemy_offset_dist>>>>,
        <<"link", "enemy_finder", "Pos", "enemy_offset", "Pos">>,
        <<"add", "enemy_move",
          <<"create_move_to", <<x - 4 * H_SPACE, y + DEPTH_SPACE>>, FALSE, FALSE>>>>,
        <<"link", "enemy_offset", "Result", "enemy_move", "Position">>,
        <<"add", "patrol_fallback",
          <<"create_move_to", <<x - 3 * H_SPACE, (y + DEPTH_SPACE) + DEPTH_SPACE>>,
            FALSE, FALSE>>>>,
        <<"link", "patrol_points", "Pos", "patrol_fallback", "Position">> >>)

\* create_clear_mobs: the execution links
clear_mobs_exec_links(b, has_portal) ==
    run(b, <<<<"link", "start", "In", "patrol_move", "Out">>>>
           \o (IF has_portal
               THEN << <<"link", "patrol_move", "In", "portal_check", "Out">>,
                       <<"link", "portal_check", "False", "enemy_check", "Out">> >>
               ELSE << <<"link", "patrol_move", "In", "enemy_check", "Out">> >>)
           \o << <<"link", "enemy_check", "True", "enemy_move", "Out">>,
                 <<"link", "enemy_check", "False", "patrol_fallback", "Out">> >>)

\* a has_portal that takes every id for a portal: portal_id is not None
clear_mobs_has_portal_not_none(portal_id) == portal_id # None

\* has_portal = portal_id is not None and portal_id != 0
clear_mobs_has_portal(portal_id) == portal_id # None /\ portal_id[1] # 0

clear_mobs_branches(b, enemy_ids, portal_id, enemy_offset_dist, x, y) ==
    clear_mobs_exec_links(
        clear_mobs_enemy(IF clear_mobs_has_portal(portal_id)
                         THEN clear_mobs_portal(b, portal_id[1], x, y)
                         ELSE b,
                         enemy_ids, enemy_offset_dist, x, y),
        clear_mobs_has_portal(portal_id))

create_clear_mobs(gen, enemy_ids, portal_id, patrol_waypoints, position, enemy_offset_dist) ==
    finish(clear_mobs_branches(clear_mobs_patrol(gen, patrol_waypoints,
                                                 position[1], position[2]),
                               enemy_ids, portal_id, enemy_offset_dist,
                               position[1], position[2]))

\* a build that hangs the move to the portal on the False pin of the branch
NexusLeavePattern_build_false_branch(gen, spawn_point, portal_id, wait_time, x, y) ==
    run(Begin(gen), <<
        <<"add", "map_change", <<"create_map_change", "Nexus", <<x, y>>>>>>,
        <<"add", "wait", <<"create_wait", wait_time, <<x - 200, y>>>>>>,
        <<"add", "spawn_point",
          <<"create_point", spawn_point[1], spawn_point[2], <<x - 400, y + 150>>>>>>,
        <<"add", "move_to_spawn", <<"create_move_to", <<x - 400, y>>, FALSE, FALSE>>>>,
        <<"add", "portal_detector",
          <<"create_enemy_list", <<portal_id>>, <<x - 800, y + 100>>, 1, 0, FALSE>>>>,
        <<"add", "if_portal", <<"create_if_node", <<x - 600, y>>>>>>,
        <<"add", "move_to_portal", <<"create_move_to", <<x - 800, y>>, FALSE, FALSE>>>>,
        <<"add", "enter_portal", <<"create_enter_portal", <<x - 1000, y>>>>>>,
        <<"link", "map_change", "In", "wait", "Out">>,
        <<"link", "wait", "In", "move_to_spawn", "Out">>,
        <<"link", "move_to_spawn", "In", "if_portal", "Out">>,
        <<"link", "if_portal", "False", "move_to_portal", "Out">>,
        <<"link", "move_to_portal", "In", "enter_portal", "Out">>,
        <<"link", "spawn_point", "Pos", "move_to_spawn", "Position">>,
        <<"link", "portal_detector", "Exists", "if_portal", "Condition">>,
        <<"link", "portal_detector", "Pos", "move_to_portal", "Position">>,
        <<"link", "portal_detector", "ID", "enter_portal", "Portal ID">> >>)

\* NexusLeavePattern.build, and create_nexus_leave that copies its nodes
NexusLeavePattern_build(gen, spawn_point, portal_id, wait_time, x, y) ==
    run(Begin(gen), <<
        <<"add", "map_change", <<"create_map_change", "Nexus", <<x, y>>>>>>,
        <<"add", "wait", <<"create_wait", wait_time, <<x - 200, y>>>>>>,
        <<"add", "spawn_point",
          <<"create_point", spawn_point[1], spawn_point[2], <<x - 400, y + 150>>>>>>,
        <<"add", "move_to_spawn", <<"create_move_to", <<x - 400, y>>, FALSE, FALSE>>>>,
        <<"add", "portal_detector",
          <<"create_enemy_list", <<portal_id>>, <<x - 800, y + 100>>, 1, 0, FALSE>>>>,
        <<"add", "if_portal", <<"create_if_node", <<x - 600, y>>>>>>,
        <<"add", "move_to_portal", <<"create_move_to", <<x - 800, y>>, FALSE, FALSE>>>>,
        <<"add", "enter_portal", <<"create_enter_portal", <<x - 1000, y>>>>>>,
        <<"link", "map_change", "In", "wait", "Out">>,
        <<"link", "wait", "In", "move_to_spawn", "Out">>,
        <<"link", "move_to_spawn", "In", "if_portal", "Out">>,
        <<"link", "if_portal", "True", "move_to_portal", "Out">>,
        <<"link", "move_to_portal", "In", "enter_portal", "Out">>,
        <<"link", "spawn_point", "Pos", "move_to_spawn", "Position">>,
        <<"link", "portal_detector", "Exists", "if_portal", "Condition">>,
        <<"link", "portal_detector", "Pos", "move_to_portal", "Position">>,
        <<"link", "portal_detector", "ID", "enter_portal", "Portal ID">> >>)

create_nexus_leave(gen, position, spawn_point, portal_id, wait_time) ==
    finish(NexusLeavePattern_build(gen, spawn_point, portal_id, wait_time,
                                   position[1], position[2]))

(* ------------------------------------------------------------------ *)
(* State                                                               *)
(* ------------------------------------------------------------------ *)
VARIABLES
    gens,     \* gens[g]: the StateGenerator instance g (nodes, links, current_id)
    issued,   \* issued[g]: the ids get_next_id has returned on g, in call order
    last,     \* the last call: its operation, its generator and its outcome
    file,     \* the destination file of save: whether it exists, and its content
    threads,  \* threads[t]: where thread t stands in a factory call on Own
    overlapped \* whether a factory call has started while another was running

vars == <<gens, issued, last, file, threads, overlapped>>

\* the threads that call factories of one generator
Threads == {"t1", "t2"}

\* a thread outside any call
IdleThread == [pc |-> "idle", node |-> <<>>, ids |-> <<>>, reg |-> 0]

Init ==
    /\ gens = [g \in GenIds |-> NewStateGenerator]
    /\ issued = [g \in GenIds |-> <<>>]
    /\ last = [op |-> "init", gen |-> Own, err |-> OK]
    /\ file = NoFile
    /\ threads = [t \in Threads |-> IdleThread]
    /\ overlapped = FALSE

(* ------------------------------------------------------------------ *)
(* Arguments the calls are tried with                                  *)
(* ------------------------------------------------------------------ *)
Positions == {<<0, 0>>}
StateNames == {"farm_clear"}
WaitTimes == {500, -1}
EnemyIdLists == {<<>>, <<100>>}
Points == {<<127, 170>>}
MissingName == "Missing"

TotalNodes == Len(gens[Own].nodes) + Len(gens[Other].nodes)

PinIds(pins) == [i \in 1..Len(pins) |-> pins[i].id]
PinNames(pins) == {pins[i].name : i \in 1..Len(pins)}

\* every pin of a node list in creation order: node by node, the input pins
\* of a node before its output pins
RECURSIVE PinsInOrder(_)
PinsInOrder(nodes) ==
    IF nodes = <<>> THEN <<>>
    ELSE nodes[1].in_pins \o nodes[1].out_pins \o PinsInOrder(Tail(nodes))

NodesOf(gen) == {gen.nodes[i] : i \in 1..Len(gen.nodes)}

\* the pin names link_pins is tried with on a node: its own and an absent one
NamesFor(node) == PinNames(node.in_pins) \cup PinNames(node.out_pins) \cup {MissingName}

(* ------------------------------------------------------------------ *)
(* Actions: the node factories                                         *)
(* ------------------------------------------------------------------ *)
\* a factory call on g with an id counter that every instance shares
Created_shared_counter(g, r) ==
    /\ gens' = [h \in GenIds |->
                   IF h = g THEN r.gen
                   ELSE [gens[h] EXCEPT !.current_id = r.gen.current_id]]
    /\ issued' = [issued EXCEPT ![g] = @ \o PinIds(r.node.in_pins) \o PinIds(r.node.out_pins)]
    /\ last' = [op |-> "create", gen |-> g, err |-> OK]
    /\ UNCHANGED <<file, threads, overlapped>>

\* a factory call on generator g returned r = [gen, node]
Created(g, r) ==
    /\ gens' = [gens EXCEPT ![g] = r.gen]
    /\ issued' = [issued EXCEPT ![g] = @ \o PinIds(r.node.in_pins) \o PinIds(r.node.out_pins)]
    /\ last' = [op |-> "create", gen |-> g, err |-> OK]
    /\ UNCHANGED <<file, threads, overlapped>>

\* the ids get_next_id has returned on g to a caller other than a factory
BareIds(g) == Len(issued[g]) - Len(PinsInOrder(gens[g].nodes))

\* get_next_id called by itself on generator g: the counter advances and the
\* id goes to the caller, no pin and no node is made of it
GetNextId(g) ==
    /\ BareIds(g) < MaxBareIds
    /\ \E r \in {get_next_id(gens[g])} :
           /\ gens' = [gens EXCEPT ![g] = r.gen]
           /\ issued' = [issued EXCEPT ![g] = Append(@, r.id)]
    /\ last' = [op |-> "get_next_id", gen |-> g, err |-> OK]
    /\ UNCHANGED <<file, threads, overlapped>>

CreateStartNode(g) ==
    /\ TotalNodes < MaxNodes
    /\ \E name \in StateNames, position \in Positions :
           Created(g, create_start_node(gens[g], name, position))

CreateSequence(g) ==
    /\ TotalNodes < MaxNodes
    /\ \E position \in Positions : Created(g, create_sequence(gens[g], position))

CreateIfNode(g) ==
    /\ TotalNodes < MaxNodes
    /\ \E position \in Positions : Created(g, create_if_node(gens[g], position))

CreatePushNode(g) ==
    /\ TotalNodes < MaxNodes
    /\ \E target_state \in StateNames, position \in Positions :
           Created(g, create_push_node(gens[g], target_state, position))

CreateWait(g) ==
    /\ TotalNodes < MaxNodes
    /\ \E wait_time \in WaitTimes, position \in Positions :
           Created(g, create_wait(gens[g], wait_time, position))

CreateEnemyList(g) ==
    /\ TotalNodes < MaxNodes
    /\ \E enemy_ids \in EnemyIdLists, position \in Positions :
           Created(g, create_enemy_list(gens[g], enemy_ids, position, 0, 0, FALSE))

CreatePlayerPos(g) ==
    /\ TotalNodes < MaxNodes
    /\ \E position \in Positions : Created(g, create_player_pos(gens[g], position))

CreatePoint(g) ==
    /\ TotalNodes < MaxNodes
    /\ \E pt \in Points, position \in Positions :
           Created(g, create_point(gens[g], pt[1], pt[2], position))

CreatePointList(g) ==
    /\ TotalNodes < MaxNodes
    /\ \E pt \in Points, position \in Positions :
           Created(g, create_point_list(gens[g], <<pt>>, position, FALSE, "1.0"))

CreateMoveTo(g) ==
    /\ TotalNodes < MaxNodes
    /\ \E position \in Positions :
           Created(g, create_move_to(gens[g], position, FALSE, FALSE))

CreateEnterPortal(g) ==
    /\ TotalNodes < MaxNodes
    /\ \E position \in Positions : Created(g, create_enter_portal(gens[g], position))

CreateMapChange(g) ==
    /\ TotalNodes < MaxNodes
    /\ \E position \in Positions :
           Created(g, create_map_change(gens[g], "Nexus", position))

CreateOperator(g) ==
    /\ TotalNodes < MaxNodes
    /\ \E position \in Positions :
           Created(g, create_operator(gens[g], position, 0, "0.0"))

CreateComparison(g) ==
    /\ TotalNodes < MaxNodes
    /\ \E position \in Positions :
           Created(g, create_comparison(gens[g], position, 0, "0.0"))

CreateSavePos(g) ==
    /\ TotalNodes < MaxNodes
    /\ \E position \in Positions : Created(g, create_save_pos(gens[g], position, FALSE))

CreateUseItem(g) ==
    /\ TotalNodes < MaxNodes
    /\ \E position \in Positions : Created(g, create_use_item(gens[g], 2594, position))

CreateSendMessage(g) ==
    /\ TotalNodes < MaxNodes
    /\ \E position \in Positions :
           Created(g, create_send_message(gens[g], "ready", position, 0))

CreateReceivedMessage(g) ==
    /\ TotalNodes < MaxNodes
    /\ \E position \in Positions :
           Created(g, create_received_message(gens[g], "leader", "ready", position))

CreateGroup(g) ==
    /\ TotalNodes < MaxNodes
    /\ \E position \in Positions : Created(g, create_group(gens[g], position, "0.1", "15.0"))

CreateHotkey(g) ==
    /\ TotalNodes < MaxNodes
    /\ \E position \in Positions : Created(g, create_hotkey(gens[g], position))

CreatePlayerCount(g) ==
    /\ TotalNodes < MaxNodes
    /\ \E position \in Positions : Created(g, create_player_count(gens[g], position, TRUE))

CreateStatusLevel(g) ==
    /\ TotalNodes < MaxNodes
    /\ \E position \in Positions : Created(g, create_status_level(gens[g], position, 0))

CreateSwitchServer(g) ==
    /\ TotalNodes < MaxNodes
    /\ \E position \in Positions : Created(g, create_switch_server(gens[g], position))

CreateConnectToQuest(g) ==
    /\ TotalNodes < MaxNodes
    /\ \E position \in Positions : Created(g, create_connect_to_quest(gens[g], position, 85))

CreateNexus(g) ==
    /\ TotalNodes < MaxNodes
    /\ \E position \in Positions : Created(g, create_nexus(gens[g], position))

CreateResetTileCache(g) ==
    /\ TotalNodes < MaxNodes
    /\ \E position \in Positions : Created(g, create_reset_tile_cache(gens[g], position))

CreateOffsetPos(g) ==
    /\ TotalNodes < MaxNodes
    /\ \E position \in Positions : Created(g, create_offset_pos(gens[g], position, "1.0"))

(* ------------------------------------------------------------------ *)
(* Actions: link_pins                                                  *)
(* ------------------------------------------------------------------ *)
\* a link_pins call on generator g returned r = [gen, err]; a successful call
\* is explored while the links list is below its bound
Linked(g, r) ==
    /\ r.err = OK => Len(gens[g].links) < MaxLinks
    /\ gens' = [gens EXCEPT ![g] = r.gen]
    /\ last' = [op |-> "link_pins", gen |-> g, err |-> r.err]
    /\ UNCHANGED <<issued, file, threads, overlapped>>

\* the outcomes of every link_pins call on gen whose source node is in S and
\* whose target node is in T, each side with every name it is tried with
LinkOutcomes(gen, S, T) ==
    UNION { UNION { { link_pins(gen, source_node, source_pin_name,
                                target_node, target_pin_name) :
                          source_pin_name \in NamesFor(source_node),
                          target_pin_name \in NamesFor(target_node) } :
                    target_node \in T } :
            source_node \in S }

\* link_pins on g, with two nodes that g's factories returned
LinkPins(g) ==
    \E r \in LinkOutcomes(gens[g], NodesOf(gens[g]), NodesOf(gens[g])) : Linked(g, r)

\* link_pins on g, with at least one node that another generator's factory
\* returned
LinkPinsForeign(g) ==
    \E h \in GenIds \ {g} :
        \E r \in LinkOutcomes(gens[g], NodesOf(gens[h]), NodesOf(gens[g]) \cup NodesOf(gens[h]))
                 \cup LinkOutcomes(gens[g], NodesOf(gens[g]), NodesOf(gens[h])) :
            Linked(g, r)

(* ------------------------------------------------------------------ *)
(* Actions: the WorkflowBuilder patterns                               *)
(* ------------------------------------------------------------------ *)
Thresholds == {"10.0"}
OffsetDists == {None, Some("2.0")}

\* a pattern call on the builder of generator g returned r = [gen, err, nodes]
Patterned(g, r) ==
    /\ gens' = [gens EXCEPT ![g] = r.gen]
    /\ issued' = [issued EXCEPT ![g] =
                      @ \o PinIds(PinsInOrder(SubSeq(r.gen.nodes, Len(gens[g].nodes) + 1,
                                                     Len(r.gen.nodes)))) ]
    /\ last' = [op |-> "pattern", gen |-> g, err |-> r.err]
    /\ UNCHANGED <<file, threads, overlapped>>

PatternFindTarget(g) ==
    /\ Len(gens[g].nodes) < MaxPatternNodes
    /\ \E enemy_ids \in EnemyIdLists, position \in Positions :
           Patterned(g, create_find_target(gens[g], enemy_ids, position, 0))

PatternMoveToTarget(g) ==
    /\ Len(gens[g].nodes) < MaxPatternNodes
    /\ \E position \in Positions, offset_dist \in OffsetDists :
           Patterned(g, create_move_to_target(gens[g], position, FALSE, offset_dist))

PatternPortalEntry(g) ==
    /\ Len(gens[g].nodes) < MaxPatternNodes
    /\ \E position \in Positions : Patterned(g, create_portal_entry(gens[g], position))

PatternDistanceCheck(g) ==
    /\ Len(gens[g].nodes) < MaxPatternNodes
    /\ \E pt \in Points, position \in Positions, threshold \in Thresholds :
           Patterned(g, create_distance_check(gens[g], pt, position, threshold))

PatternPatrol(g) ==
    /\ Len(gens[g].nodes) < MaxPatternNodes
    /\ \E pt \in Points, position \in Positions :
           Patterned(g, create_patrol(gens[g], <<pt>>, position, "2.0"))

PatternWait(g) ==
    /\ Len(gens[g].nodes) < MaxPatternNodes
    /\ \E wait_ms \in WaitTimes, position \in Positions :
           Patterned(g, builder_create_wait(gens[g], wait_ms, position))

PortalIds == {None, Some(0), Some(1810)}

PatternBeaconSearch(g) ==
    /\ Len(gens[g].nodes) < MaxBuilderNodes
    /\ \E pt \in Points, next_state \in StateNames, position \in Positions,
          threshold \in Thresholds :
           Patterned(g, create_beacon_search(gens[g], 100, pt, next_state, position,
                                             threshold))

PatternClearMobs(g) ==
    /\ Len(gens[g].nodes) < MaxBuilderNodes
    /\ \E portal_id \in PortalIds, pt \in Points, position \in Positions :
           Patterned(g, create_clear_mobs(gens[g], <<100>>, portal_id, <<pt>>, position,
                                          "2.5"))

PatternNexusLeave(g) ==
    /\ Len(gens[g].nodes) < MaxBuilderNodes
    /\ \E pt \in Points, position \in Positions :
           Patterned(g, create_nexus_leave(gens[g], position, pt, 1810, 500))

(* ------------------------------------------------------------------ *)
(* Actions: generate and save                                          *)
(* ------------------------------------------------------------------ *)
\* a factory call with a position that has no coordinates: the empty tuple
CreateWaitNoPosition(g) ==
    /\ TotalNodes < MaxNodes
    /\ Created(g, create_wait(gens[g], 500, <<>>))

Generate(g) ==
    /\ gens' = [gens EXCEPT ![g] = generate(gens[g]).gen]
    /\ last' = [op |-> "generate", gen |-> g, err |-> generate(gens[g]).err]
    /\ UNCHANGED <<issued, file, threads, overlapped>>

Save(g) ==
    /\ gens' = [gens EXCEPT ![g] = save(gens[g], file).gen]
    /\ file' = save(gens[g], file).file
    /\ last' = [op |-> "save", gen |-> g, err |-> save(gens[g], file).err]
    /\ UNCHANGED <<issued, threads, overlapped>>

(* ------------------------------------------------------------------ *)
(* Specifications                                                      *)
(* ------------------------------------------------------------------ *)
\* any one of the node factories, called on generator g
Factory(g) ==
    \/ CreateStartNode(g)
    \/ CreateSequence(g)
    \/ CreateIfNode(g)
    \/ CreatePushNode(g)
    \/ CreateWait(g)
    \/ CreateEnemyList(g)
    \/ CreatePlayerPos(g)
    \/ CreatePoint(g)
    \/ CreatePointList(g)
    \/ CreateMoveTo(g)
    \/ CreateEnterPortal(g)
    \/ CreateMapChange(g)
    \/ CreateOperator(g)
    \/ CreateComparison(g)
    \/ CreateSavePos(g)
    \/ CreateUseItem(g)
    \/ CreateSendMessage(g)
    \/ CreateReceivedMessage(g)
    \/ CreateGroup(g)
    \/ CreateHotkey(g)
    \/ CreatePlayerCount(g)
    \/ CreateStatusLevel(g)
    \/ CreateSwitchServer(g)
    \/ CreateConnectToQuest(g)
    \/ CreateNexus(g)
    \/ CreateResetTileCache(g)
    \/ CreateOffsetPos(g)

\* one StateGenerator, driven through its factories and link_pins with the
\* nodes its factories returned
Next ==
    \/ Factory(Own)
    \/ LinkPins(Own)

Spec == Init /\ [][Next]_vars

\* two StateGenerator instances; link_pins is also handed Node objects that
\* the other instance's factories returned
NextForeign ==
    \/ \E g \in GenIds : Factory(g)
    \/ \E g \in GenIds : LinkPins(g)
    \/ \E g \in GenIds : LinkPinsForeign(g)

SpecForeign == Init /\ [][NextForeign]_vars

\* any one of the smaller patterns, called on the builder of generator g
SimplePattern(g) ==
    \/ PatternFindTarget(g)
    \/ PatternMoveToTarget(g)
    \/ PatternPortalEntry(g)
    \/ PatternDistanceCheck(g)
    \/ PatternPatrol(g)
    \/ PatternWait(g)

\* any one of the patterns, called on the builder of generator g
Pattern(g) ==
    \/ SimplePattern(g)
    \/ PatternBeaconSearch(g)
    \/ PatternClearMobs(g)
    \/ PatternNexusLeave(g)

\* one WorkflowBuilder: its patterns, and the factories of its generator
NextBuilder ==
    \/ Factory(Own)
    \/ Pattern(Own)

SpecBuilder == Init /\ [][NextBuilder]_vars

\* one WorkflowBuilder driven through its patterns alone
NextPatterns ==
    \/ SimplePattern(Own)
    \/ PatternBeaconSearch(Own)
    \/ PatternClearMobs(Own)
    \/ PatternNexusLeave(Own)

SpecPatterns == Init /\ [][NextPatterns]_vars

\* one builder whose graph is serialized and saved at any point
NextDocument ==
    \/ Factory(Own)
    \/ CreateWaitNoPosition(Own)
    \/ SimplePattern(Own)
    \/ Generate(Own)
    \/ Save(Own)

SpecDocument == Init /\ [][NextDocument]_vars

\* one generator driven through every kind of operation: factories,
\* link_pins, a pattern of its builder, generate and save
NextOperations ==
    \/ CreateWait(Own)
    \/ CreateIfNode(Own)
    \/ LinkPins(Own)
    \/ PatternFindTarget(Own)
    \/ Generate(Own)
    \/ Save(Own)

SpecOperations == Init /\ [][NextOperations]_vars

\* two StateGenerator instances, each behind its own builder, whose calls
\* interleave; the caller of one also draws ids from get_next_id directly
NextInstances ==
    \/ \E g \in GenIds :
           \/ CreateWait(g)
           \/ CreateEnemyList(g)
           \/ PatternWait(g)
           \/ PatternFindTarget(g)
    \/ GetNextId(Other)

SpecInstances == Init /\ [][NextInstances]_vars

\* one generator whose caller also draws ids from get_next_id directly,
\* between a factory, a pattern of its builder, link_pins and generate
NextAllocator ==
    \/ GetNextId(Own)
    \/ CreateWait(Own)
    \/ PatternFindTarget(Own)
    \/ LinkPins(Own)
    \/ Generate(Own)

SpecAllocator == Init /\ [][NextAllocator]_vars


(* ------------------------------------------------------------------ *)
(* Vocabulary of the properties                                        *)
(* ------------------------------------------------------------------ *)
Range(seq) == {seq[i] : i \in 1..Len(seq)}

\* the pins of a generator's registered nodes, by array
OutPins(gen) == UNION {Range(node.out_pins) : node \in NodesOf(gen)}
InPins(gen) == UNION {Range(node.in_pins) : node \in NodesOf(gen)}
OutPinIds(gen) == {p.id : p \in OutPins(gen)}
InPinIds(gen) == {p.id : p \in InPins(gen)}

\* the pin types carried by the registered pins with a given id
TypesOfId(gen, id) ==
    {p.pin_type : p \in {q \in OutPins(gen) \cup InPins(gen) : q.id = id}}

\* what a (node, pin name) pair denotes, read off the node's two arrays
HasOut(node, name) == \E i \in 1..Len(node.out_pins) : node.out_pins[i].name = name
HasIn(node, name) == \E i \in 1..Len(node.in_pins) : node.in_pins[i].name = name
Has(node, name) == HasOut(node, name) \/ HasIn(node, name)
TypesNamed(node, name) ==
    {p.pin_type : p \in {q \in Range(node.out_pins) \cup Range(node.in_pins) : q.name = name}}

\* the two named pins lie in the same array class
BothOutOrBothIn(s, a, t, b) ==
    (HasOut(s, a) /\ HasOut(t, b)) \/ (HasIn(s, a) /\ HasIn(t, b))

\* the link joins the two named pins: its left id is that of the one in an
\* out_pins array, its right id that of the other in an in_pins array,
\* whichever argument names which
PinAt(pins, name, id) ==
    \E i \in 1..Len(pins) : pins[i].name = name /\ pins[i].id = id
JoinsNamed(link, s, a, t, b) ==
    \/ PinAt(s.out_pins, a, link.left_pin_id) /\ PinAt(t.in_pins, b, link.right_pin_id)
    \/ PinAt(t.out_pins, b, link.left_pin_id) /\ PinAt(s.in_pins, a, link.right_pin_id)

\* the nodes link_pins is called with in Spec, and a call on the generator
OwnNodes == NodesOf(gens[Own])
Call(s, a, t, b) == link_pins(gens[Own], s, a, t, b)

\* P holds of every link_pins call that can be made in the current state
ForAllCalls(P(_, _, _, _)) ==
    \A s \in OwnNodes, t \in OwnNodes :
        \A a \in NamesFor(s), b \in NamesFor(t) : P(s, a, t, b)

\* P holds of some link_pins call that can be made in the current state
ForSomeCall(P(_, _, _, _)) ==
    \E s \in OwnNodes, t \in OwnNodes :
        \E a \in NamesFor(s), b \in NamesFor(t) : P(s, a, t, b)

LastLinkPins(err) == last.op = "link_pins" /\ last.gen = Own /\ last.err = err

(* ------------------------------------------------------------------ *)
(* C1                                                                  *)
(* ------------------------------------------------------------------ *)
\* C1: every link of the generator has as left_pin_id the id of a pin in a
\* registered node's out_pins and as right_pin_id the id of a pin in a
\* registered node's in_pins, whatever the order of the arguments of the
\* link_pins calls that were made
C1_LeftIsOutputRightIsInput ==
    \A k \in 1..Len(gens[Own].links) :
        /\ gens[Own].links[k].left_pin_id \in OutPinIds(gens[Own])
        /\ gens[Own].links[k].right_pin_id \in InPinIds(gens[Own])

C1_BothOrders(s, a, t, b) ==
    /\ HasIn(s, a) /\ HasOut(t, b)
    /\ Call(s, a, t, b).err = DuplicateLink
    /\ Call(t, b, s, a).err = DuplicateLink

\* a link was appended, and it is the link that the call with the input pin
\* first and the call with the output pin first both resolve to
C1_Witness ==
    /\ LastLinkPins(OK)
    /\ Len(gens[Own].links) >= 1
    /\ ForSomeCall(C1_BothOrders)

(* ------------------------------------------------------------------ *)
(* C2                                                                  *)
(* ------------------------------------------------------------------ *)
\* C2: both pin ids of every link of a generator are ids of pins owned by
\* nodes in that generator's nodes list, also when link_pins was handed
\* Node objects of another generator
C2_LinksReferenceRegisteredPins ==
    \A g \in GenIds :
        \A k \in 1..Len(gens[g].links) :
            /\ gens[g].links[k].left_pin_id \in OutPinIds(gens[g]) \cup InPinIds(gens[g])
            /\ gens[g].links[k].right_pin_id \in OutPinIds(gens[g]) \cup InPinIds(gens[g])

(* ------------------------------------------------------------------ *)
(* C3                                                                  *)
(* ------------------------------------------------------------------ *)
\* C3: the ids get_next_id returns on one generator are strictly increasing
\* and all greater than the base offset, and the pins of the generator carry
\* ids it returned, strictly increasing in creation order (so they are
\* pairwise distinct), whether or not get_next_id was also called directly
C3_PinIdsStrictlyIncreasing ==
    \A g \in GenIds :
        /\ \A i, j \in 1..Len(issued[g]) : i < j => issued[g][i] < issued[g][j]
        /\ \A i \in 1..Len(issued[g]) : issued[g][i] > BASE_ID
        /\ \A ids \in {PinIds(PinsInOrder(gens[g].nodes))} :
               /\ \A i \in 1..Len(ids) - 1 : ids[i] < ids[i + 1]
               /\ \A i \in 1..Len(ids) : ids[i] \in BASE_ID + 1..gens[g].current_id

\* a pattern has run after an earlier call, and issued several ids behind the
\* ids that call had issued
C3_Witness ==
    /\ last.op = "pattern"
    /\ Len(gens[Own].nodes) >= 3
    /\ Len(issued[Own]) >= 4

(* ------------------------------------------------------------------ *)
(* C4                                                                  *)
(* ------------------------------------------------------------------ *)
C4_Check(r, s, a, t, b) ==
    /\ (\E k \in 1..Len(gens[Own].links) : JoinsNamed(gens[Own].links[k], s, a, t, b))
           => r.err = DuplicateLink
    /\ r.err = DuplicateLink => Len(r.gen.links) = Len(gens[Own].links)

C4_Body(s, a, t, b) == C4_Check(Call(s, a, t, b), s, a, t, b)

\* C4: no two entries of the links list carry the same (left, right) pair; a
\* link_pins call whose pins form a pair already in the list fails with
\* DuplicateLink, and the number of links is unchanged by it
C4_NoDuplicateLinks ==
    [](/\ \A i, j \in 1..Len(gens[Own].links) :
              i # j => gens[Own].links[i] # gens[Own].links[j]
       /\ ForAllCalls(C4_Body))

\* a link is in the list and the last call, for the same pair, was refused
C4_Witness ==
    /\ LastLinkPins(DuplicateLink)
    /\ Len(gens[Own].links) = 1

(* ------------------------------------------------------------------ *)
(* C5                                                                  *)
(* ------------------------------------------------------------------ *)
C5_Check(r, s, a, t, b) ==
    (/\ Has(s, a) /\ Has(t, b)
     /\ TypesNamed(s, a) \cap TypesNamed(t, b) = {}) => r.err = TypeMismatch

C5_Body(s, a, t, b) == C5_Check(Call(s, a, t, b), s, a, t, b)

\* C5: a link_pins call whose two names resolve to pins of different PinTypes
\* fails with TypeMismatch, in either argument order and whatever arrays the
\* pins are in; no link of the list joins pins of different types
C5_TypeMismatchAlways ==
    [](/\ ForAllCalls(C5_Body)
       /\ \A k \in 1..Len(gens[Own].links) :
              TypesOfId(gens[Own], gens[Own].links[k].left_pin_id)
                  = TypesOfId(gens[Own], gens[Own].links[k].right_pin_id))

C5_MixedArrays(s, a, t, b) ==
    /\ HasIn(s, a) /\ HasOut(t, b)
    /\ Call(s, a, t, b).err = TypeMismatch
    /\ Call(t, b, s, a).err = TypeMismatch

\* the last call was refused for its types, in a graph where an input pin and
\* an output pin of different types are refused in both orders
C5_Witness ==
    /\ LastLinkPins(TypeMismatch)
    /\ ForSomeCall(C5_MixedArrays)

(* ------------------------------------------------------------------ *)
(* C6                                                                  *)
(* ------------------------------------------------------------------ *)
C6_OriginalBody(s, a, t, b) ==
    BothOutOrBothIn(s, a, t, b) => Call(s, a, t, b).err = InvalidLinkShape

\* C6 as stated: two resolved pins that are both output pins, or both input
\* pins, make link_pins fail with InvalidLinkShape whatever their types
C6_SameArrayAlwaysInvalidShape == ForAllCalls(C6_OriginalBody)

C6_Check(r, s, a, t, b) ==
    BothOutOrBothIn(s, a, t, b) =>
        /\ TypesNamed(s, a) = TypesNamed(t, b) => r.err = InvalidLinkShape
        /\ TypesNamed(s, a) \cap TypesNamed(t, b) = {} => r.err = TypeMismatch

C6_Body(s, a, t, b) == C6_Check(Call(s, a, t, b), s, a, t, b)

\* C6 amended: two resolved pins of the same array class make link_pins fail
\* with InvalidLinkShape when they have the same PinType, and with
\* TypeMismatch when their PinTypes differ
C6_SameArraySameTypeInvalidShape == [](ForAllCalls(C6_Body))

C6_TwoOutputs(s, a, t, b) ==
    /\ HasOut(s, a) /\ HasOut(t, b)
    /\ Call(s, a, t, b).err = InvalidLinkShape

\* the last call was refused for its shape, and two output pins are refused so
C6_Witness ==
    /\ LastLinkPins(InvalidLinkShape)
    /\ ForSomeCall(C6_TwoOutputs)

(* ------------------------------------------------------------------ *)
(* C7                                                                  *)
(* ------------------------------------------------------------------ *)
C7_Check(r, s, a, t, b) ==
    (r.err = PinNotFound) <=> (~Has(s, a) \/ ~Has(t, b))

C7_Body(s, a, t, b) == C7_Check(Call(s, a, t, b), s, a, t, b)

\* C7: link_pins fails with PinNotFound exactly when one of the two names is
\* in neither array of its node
C7_PinNotFoundExactly == [](ForAllCalls(C7_Body))

C7_InputAsSource(s, a, t, b) ==
    /\ HasIn(s, a) /\ HasOut(t, b)
    /\ Call(s, a, t, b).err # PinNotFound

\* the last call named an absent pin, in a graph where a call that names an
\* input pin first and an output pin second resolves both
C7_Witness ==
    /\ LastLinkPins(PinNotFound)
    /\ ForSomeCall(C7_InputAsSource)

(* ------------------------------------------------------------------ *)
(* C8                                                                  *)
(* ------------------------------------------------------------------ *)
\* C8: a link_pins call that fails with one of the four errors leaves every
\* generator (nodes with their pins and config, links, id counter) and the
\* ids issued exactly as they were
C8_FailedLinkChangesNothing ==
    [][(last'.op = "link_pins" /\ last'.err \in LinkErrors)
           => (gens' = gens /\ issued' = issued)]_vars

\* a call failed on a graph that holds a node and a link
C8_Witness ==
    /\ last.op = "link_pins"
    /\ last.err \in LinkErrors \ {DuplicateLink, PinNotFound}
    /\ Len(gens[Own].links) >= 1

(* ------------------------------------------------------------------ *)
(* C9                                                                  *)
(* ------------------------------------------------------------------ *)
C9_Check(r) ==
    r.err = OK =>
        /\ Len(r.gen.links) = Len(gens[Own].links) + 1
        /\ SubSeq(r.gen.links, 1, Len(gens[Own].links)) = gens[Own].links
        /\ r.gen.nodes = gens[Own].nodes
        /\ r.gen.current_id = gens[Own].current_id

C9_Body(s, a, t, b) == C9_Check(Call(s, a, t, b))

\* C9: a successful link_pins call appends exactly one Link at the end of the
\* links list: the earlier links keep their positions and values, and the
\* nodes, the id counter, the ids issued and the other generator are unchanged
C9_SuccessAppendsOneLink ==
    /\ [](ForAllCalls(C9_Body))
    /\ [][(last'.op = "link_pins" /\ last'.err = OK)
              => /\ Len(gens'[Own].links) = Len(gens[Own].links) + 1
                 /\ gens'[Own].nodes = gens[Own].nodes
                 /\ gens'[Own].current_id = gens[Own].current_id
                 /\ gens'[Other] = gens[Other]
                 /\ issued' = issued]_vars

C9_AnotherLink(s, a, t, b) == Call(s, a, t, b).err = OK

\* a link was appended, and a further link can be appended behind it
C9_Witness ==
    /\ LastLinkPins(OK)
    /\ Len(gens[Own].links) = 1
    /\ ForSomeCall(C9_AnotherLink)

(* ------------------------------------------------------------------ *)
(* C10                                                                 *)
(* ------------------------------------------------------------------ *)
C10_Check(r1, r2, s, a, t, b) ==
    /\ r1.err = r2.err
    /\ r1.gen = r2.gen
    /\ r1.err = OK => link_pins(r1.gen, t, b, s, a).err = DuplicateLink

C10_Body(s, a, t, b) == C10_Check(Call(s, a, t, b), Call(t, b, s, a), s, a, t, b)

\* C10: from the same state, link_pins(A, a, B, b) and link_pins(B, b, A, a)
\* fail with the same error or append the same (left, right) pair, and the
\* second of the two made after the first fails with DuplicateLink
C10_ArgumentOrderIndependent == [](ForAllCalls(C10_Body))

C10_Swapped(s, a, t, b) ==
    /\ <<s, a>> # <<t, b>>
    /\ Call(s, a, t, b).err = DuplicateLink
    /\ Call(t, b, s, a).err = DuplicateLink

\* after a link was appended, the call and the call with its arguments
\* swapped are both refused as duplicates
C10_Witness ==
    /\ LastLinkPins(DuplicateLink)
    /\ Len(gens[Own].links) >= 1
    /\ ForSomeCall(C10_Swapped)

(* ------------------------------------------------------------------ *)
(* C11                                                                 *)
(* ------------------------------------------------------------------ *)
\* r is the outcome of generate() on gen, again the outcome of generate()
\* on the generator r left
C11_Check(gen, r, again) ==
    r.err = OK =>
        /\ r.gen = gen
        /\ again = r
        /\ Len(r.doc[1].links) = Len(gen.links)
        /\ \A i \in 1..Len(gen.links) :
               r.doc[1].links[i] = [leftPinID |-> gen.links[i].left_pin_id,
                                    rightPinID |-> gen.links[i].right_pin_id]
        /\ Len(r.doc[1].nodes) = Len(gen.nodes)
        /\ \A i \in 1..Len(gen.nodes) :
               r.doc[1].nodes[i].nodeType = gen.nodes[i].node_type
        /\ r.doc[1].version = "1.0"

\* C11: generate() leaves nodes, links and the id counter as they were, a
\* second generate() right after it returns the identical document, and the
\* document lists the links in insertion order, the nodes in creation order
\* and the version "1.0"
C11_GenerateDeterministicReadOnly ==
    C11_Check(gens[Own], generate(gens[Own]), generate(generate(gens[Own]).gen))

\* generate() returned on a graph of two nodes or more and a link
C11_Witness ==
    /\ last.op = "generate"
    /\ last.err = OK
    /\ Len(gens[Own].nodes) >= 2
    /\ Len(gens[Own].links) >= 1

(* ------------------------------------------------------------------ *)
(* C12                                                                 *)
(* ------------------------------------------------------------------ *)
\* the keys Node.to_dict writes itself; every other key of a node record is
\* read back as a config key
ReservedKeys == {"nodeType", "position", "inPins", "outPins"}

\* reading a document back: the number a float stands for, an absent pin
\* array as the empty one, the unreserved keys as the config
ParsePins(d, key) ==
    IF key \in DOMAIN d THEN [i \in 1..Len(d[key]) |-> <<d[key][i].id, d[key][i].name>>]
    ELSE <<>>

ParseNode(d) ==
    [node_type |-> d.nodeType,
     position |-> <<d.position.x.float, d.position.y.float>>,
     in_pins |-> ParsePins(d, "inPins"),
     out_pins |-> ParsePins(d, "outPins"),
     config |-> [k \in DOMAIN d \ ReservedKeys |-> d[k]]]

Parse(doc) ==
    [nodes |-> [i \in 1..Len(doc.nodes) |-> ParseNode(doc.nodes[i])],
     links |-> [i \in 1..Len(doc.links) |-> <<doc.links[i].leftPinID, doc.links[i].rightPinID>>]]

\* the observable structure of a graph: per node its kind, position, pin
\* (id, name) lists and config, and the link pin-id pairs, all in order
IdsAndNames(pins) == [i \in 1..Len(pins) |-> <<pins[i].id, pins[i].name>>]

ObservableNode(node) ==
    [node_type |-> node.node_type,
     position |-> <<node.position[1], node.position[2]>>,
     in_pins |-> IdsAndNames(node.in_pins),
     out_pins |-> IdsAndNames(node.out_pins),
     config |-> [k \in DOMAIN node.config |-> node.config[k]]]

Observable(gen) ==
    [nodes |-> [i \in 1..Len(gen.nodes) |-> ObservableNode(gen.nodes[i])],
     links |-> [i \in 1..Len(gen.links) |->
                   <<gen.links[i].left_pin_id, gen.links[i].right_pin_id>>]]

C12_Check(gen, r) ==
    r.err = OK =>
        /\ \A i \in 1..Len(gen.nodes) : DOMAIN gen.nodes[i].config \cap ReservedKeys = {}
        /\ Parse(r.doc[1]) = Observable(gen)

\* C12: in every graph built through the factories and link_pins, no config
\* key is a reserved key, and reading back the document generate() returns
\* gives the same node kinds, positions, input and output pin (id, name)
\* lists and configs in creation order and the same link pin-id pairs in
\* insertion order
C12_RoundTrip == C12_Check(gens[Own], generate(gens[Own]))

\* a graph with a link, a node that has a config and a node that has no
\* input pins was serialized
C12_Witness ==
    /\ last.op = "generate"
    /\ last.err = OK
    /\ Len(gens[Own].links) >= 1
    /\ \E i \in 1..Len(gens[Own].nodes) :
           /\ gens[Own].nodes[i].config # EmptyConfig
           /\ gens[Own].nodes[i].in_pins = <<>>

(* ------------------------------------------------------------------ *)
(* C13                                                                 *)
(* ------------------------------------------------------------------ *)
\* the id of the pin of the list that carries the name
IdNamed(pins, name) == pins[CHOOSE i \in 1..Len(pins) : pins[i].name = name].id

\* the nodes a call appended to gen, given the generator it left
Appended(gen, after) == SubSeq(after.nodes, Len(gen.nodes) + 1, Len(after.nodes))

\* r is the outcome of create_find_target on gen, added the nodes it appended
C13_Check(gen, r, added) ==
    /\ r.err = OK
    /\ r.gen.nodes = gen.nodes \o added
    /\ Len(added) = 2
    /\ added[1].node_type = "EnemyList"
    /\ added[2].node_type = "If"
    /\ HasOut(added[1], "Exists")
    /\ HasIn(added[2], "Condition")
    /\ r.gen.links = gen.links \o
           << [left_pin_id |-> IdNamed(added[1].out_pins, "Exists"),
               right_pin_id |-> IdNamed(added[2].in_pins, "Condition")] >>
    /\ DOMAIN r.nodes = {"finder", "check"}
    /\ r.nodes["finder"] = added[1]
    /\ r.nodes["check"] = added[2]

C13_Call(enemy_ids, position) ==
    C13_Check(gens[Own],
              create_find_target(gens[Own], enemy_ids, position, 0),
              Appended(gens[Own], create_find_target(gens[Own], enemy_ids, position, 0).gen))

\* C13: on a fresh builder and on any other, create_find_target appends
\* exactly two nodes, an EnemyList and then an If, and exactly one link, from
\* the id of the EnemyList's Exists output to the id of the If's Condition
\* input, and returns exactly the roles finder and check bound to them
C13_FindTargetTwoNodesOneLink ==
    [](\A enemy_ids \in EnemyIdLists, position \in Positions :
           C13_Call(enemy_ids, position))

\* create_find_target was called on a builder that held a node already
C13_Witness ==
    /\ last.op = "pattern"
    /\ Len(gens[Own].nodes) >= 3
    /\ Len(gens[Own].links) >= 1
    /\ \E i \in 2..(Len(gens[Own].nodes) - 1) :
           /\ gens[Own].nodes[i].node_type = "EnemyList"
           /\ gens[Own].nodes[i + 1].node_type = "If"
           /\ gens[Own].links[Len(gens[Own].links)] =
                  [left_pin_id |-> IdNamed(gens[Own].nodes[i].out_pins, "Exists"),
                   right_pin_id |-> IdNamed(gens[Own].nodes[i + 1].in_pins, "Condition")]

(* ------------------------------------------------------------------ *)
(* C14                                                                 *)
(* ------------------------------------------------------------------ *)
\* r is the outcome of create_move_to_target with an offset distance on gen,
\* added the nodes it appended: three of them
C14_OriginalCheck(gen, r, added) ==
    /\ r.err = OK
    /\ r.gen.nodes = gen.nodes \o added
    /\ Len(added) = 3

C14_OriginalCall(position, offset_dist) ==
    offset_dist # None =>
        C14_OriginalCheck(gens[Own],
                          create_move_to_target(gens[Own], position, FALSE, offset_dist),
                          Appended(gens[Own],
                                   create_move_to_target(gens[Own], position, FALSE,
                                                         offset_dist).gen))

\* C14 as stated: called with an offset distance, create_move_to_target
\* yields exactly 3 nodes
C14_OffsetYieldsThreeNodes ==
    \A position \in Positions, offset_dist \in OffsetDists :
        C14_OriginalCall(position, offset_dist)

\* r is the outcome of create_move_to_target on gen, added the nodes it
\* appended
C14_Check(gen, r, added, offset_dist) ==
    /\ r.err = OK
    /\ r.gen.nodes = gen.nodes \o added
    /\ IF offset_dist # None
       THEN /\ Len(added) = 2
            /\ added[1].node_type = "OffsetPos"
            /\ added[2].node_type = "MoveTo"
            /\ HasOut(added[1], "Result")
            /\ HasIn(added[2], "Position")
            /\ r.gen.links = gen.links \o
                   << [left_pin_id |-> IdNamed(added[1].out_pins, "Result"),
                       right_pin_id |-> IdNamed(added[2].in_pins, "Position")] >>
            /\ DOMAIN r.nodes = {"offset", "move"}
            /\ r.nodes["offset"] = added[1]
            /\ r.nodes["move"] = added[2]
       ELSE /\ Len(added) = 1
            /\ added[1].node_type = "MoveTo"
            /\ r.gen.links = gen.links
            /\ DOMAIN r.nodes = {"move"}
            /\ r.nodes["move"] = added[1]

C14_Call(position, offset_dist) ==
    C14_Check(gens[Own],
              create_move_to_target(gens[Own], position, FALSE, offset_dist),
              Appended(gens[Own],
                       create_move_to_target(gens[Own], position, FALSE, offset_dist).gen),
              offset_dist)

\* C14: called with an offset distance, create_move_to_target appends exactly
\* two nodes, an OffsetPos and then a MoveTo, and one link from the OffsetPos
\* Result output to the MoveTo Position input, and returns the roles offset
\* and move; called without one it appends only the MoveTo node and no link
\* and returns the role move
C14_OffsetYieldsTwoNodes ==
    [](\A position \in Positions, offset_dist \in OffsetDists :
           C14_Call(position, offset_dist))

\* create_move_to_target was called with an offset distance: the graph ends
\* with an OffsetPos, a MoveTo and the link between them
C14_Witness ==
    /\ last.op = "pattern"
    /\ Len(gens[Own].nodes) >= 2
    /\ Len(gens[Own].links) >= 1
    /\ gens[Own].nodes[Len(gens[Own].nodes) - 1].node_type = "OffsetPos"
    /\ gens[Own].nodes[Len(gens[Own].nodes)].node_type = "MoveTo"
    /\ gens[Own].links[Len(gens[Own].links)] =
           [left_pin_id |-> IdNamed(gens[Own].nodes[Len(gens[Own].nodes) - 1].out_pins,
                                    "Result"),
            right_pin_id |-> IdNamed(gens[Own].nodes[Len(gens[Own].nodes)].in_pins,
                                     "Position")]

(* ------------------------------------------------------------------ *)
(* C15                                                                 *)
(* ------------------------------------------------------------------ *)
\* the index in gen.nodes of the node that owns the pin id
OwnerOf(gen, id) ==
    CHOOSE i \in 1..Len(gen.nodes) :
        \E p \in Range(gen.nodes[i].in_pins) \cup Range(gen.nodes[i].out_pins) : p.id = id

\* each link as a directed edge from the node owning its left pin to the node
\* owning its right pin
Edges(gen) ==
    { <<OwnerOf(gen, gen.links[k].left_pin_id), OwnerOf(gen, gen.links[k].right_pin_id)>> :
          k \in 1..Len(gen.links) }

\* the nodes of N that no edge from a node of N enters
Sources(N, edges) == {n \in N : \A e \in edges : e[2] = n => e[1] \notin N}

\* N holds no directed cycle: removing the nodes without an incoming edge,
\* again and again, removes every node
RECURSIVE Peels(_, _, _)
Peels(N, edges, sources) ==
    IF N = {} THEN TRUE
    ELSE IF sources = {} THEN FALSE
    ELSE Peels(N \ sources, edges, Sources(N \ sources, edges))

Acyclic(N, edges) == Peels(N, edges, Sources(N, edges))

C15_Check(gen, edges) ==
    /\ \A e \in edges : e[1] # e[2]
    /\ Acyclic(1..Len(gen.nodes), edges)

\* C15: the graph of a builder, after create_beacon_search and after any
\* sequence of pattern calls, has no link from a node to itself and no
\* directed cycle of links
C15_NoCycle == C15_Check(gens[Own], Edges(gens[Own]))

\* a beacon search was built after another pattern: the graph holds its
\* Comparison node, with a link leaving it
C15_Witness ==
    /\ last.op = "pattern"
    /\ Len(gens[Own].nodes) >= 14
    /\ Len(gens[Own].links) >= 14
    /\ \E i \in 1..Len(gens[Own].nodes) :
           /\ gens[Own].nodes[i].node_type = "Comparison"
           /\ \E e \in Edges(gens[Own]) : e[1] = i

(* ------------------------------------------------------------------ *)
(* C16                                                                 *)
(* ------------------------------------------------------------------ *)
IsPrefix(s, t) == Len(s) <= Len(t) /\ SubSeq(t, 1, Len(s)) = s

\* C16: across every step the nodes list and the links list of a generator
\* grow at the end only: the lists before the step are prefixes of the lists
\* after it, so no node or link is removed or reordered and no pin of an
\* existing node changes its id, name or type
C16_ListsOnlyGrowAtEnd ==
    [][\A g \in GenIds :
           /\ IsPrefix(gens[g].nodes, gens'[g].nodes)
           /\ IsPrefix(gens[g].links, gens'[g].links)]_vars

\* a graph of several nodes and a link, built step by step, was saved
C16_Witness ==
    /\ last.op = "save"
    /\ last.err = OK
    /\ Len(gens[Own].nodes) >= 3
    /\ Len(gens[Own].links) >= 1

(* ------------------------------------------------------------------ *)
(* C17                                                                 *)
(* ------------------------------------------------------------------ *)
\* the factory calls made on a generator, as the kinds of its nodes in
\* creation order
KindsInOrder(gen) == [i \in 1..Len(gen.nodes) |-> gen.nodes[i].node_type]

\* the ids an instance issued are BASE_ID + 1, BASE_ID + 2, ... in call
\* order, whatever the other instance did in between
C17_OwnCounter(g) ==
    /\ issued[g] = [i \in 1..Len(issued[g]) |-> BASE_ID + i]
    /\ gens[g].current_id = BASE_ID + Len(issued[g])

\* the ids a generator handed to its caller directly; as ids count the
\* calls, they are the places of the direct calls among all the calls
DirectIds(g) == Range(issued[g]) \ Range(PinIds(PinsInOrder(gens[g].nodes)))

\* two instances driven by the same calls (the same factories in the same
\* order, get_next_id called directly at the same places) issued the same ids
C17_SameCallsSameIds ==
    (KindsInOrder(gens[Own]) = KindsInOrder(gens[Other])
         /\ DirectIds(Own) = DirectIds(Other)) =>
        /\ issued[Own] = issued[Other]
        /\ PinsInOrder(gens[Own].nodes) = PinsInOrder(gens[Other].nodes)

\* a call on one instance leaves the counter, nodes and links of the other
\* instance, and the ids it issued, as they were
C17_OtherUntouched ==
    \A g \in GenIds :
        last'.gen = g =>
            \A h \in GenIds \ {g} : gens'[h] = gens[h] /\ issued'[h] = issued[h]

\* C17: the id allocator belongs to the instance: a call on one generator
\* never changes the id counter, nodes or links of another, and the ids a
\* generator issues are decided by the calls made on it alone, so two
\* instances driven by the same calls issue the same ids however their calls
\* interleave
C17_AllocatorPerInstance ==
    /\ [](\A g \in GenIds : C17_OwnCounter(g))
    /\ []C17_SameCallsSameIds
    /\ [][C17_OtherUntouched]_vars

\* both instances were driven by the same calls, interleaved, and issued the
\* same ids
C17_Witness ==
    /\ Len(gens[Own].nodes) >= 2
    /\ KindsInOrder(gens[Own]) = KindsInOrder(gens[Other])
    /\ issued[Own] = issued[Other]
    /\ Len(issued[Own]) >= 2
    /\ last.gen = Other

(* ------------------------------------------------------------------ *)
(* C18                                                                 *)
(* ------------------------------------------------------------------ *)
\* the destination holding exactly the complete document of the graph
CompleteFile(gen) == [exists |-> TRUE, data |-> <<document(gen)>>]

\* a save step left the destination with the complete document, or as it was
C18_SaveStep ==
    last'.op = "save" =>
        \/ last'.err = OK /\ file' = CompleteFile(gens[last'.gen])
        \/ file' = file

\* C18: save is one atomic write: in every outcome, a failure while the
\* document is generated included, the destination holds the complete
\* document or its previous content, never a truncated or empty one
C18_SaveAtomic == [][C18_SaveStep]_vars

(* ------------------------------------------------------------------ *)
(* C19                                                                 *)
(* ------------------------------------------------------------------ *)
\* no two pins of the list carry the same name
NamesUnique(pins) ==
    \A i \in 1..Len(pins), j \in 1..Len(pins) : pins[i].name = pins[j].name => i = j

C19_Check(node) ==
    /\ NamesUnique(node.in_pins)
    /\ NamesUnique(node.out_pins)
    /\ PinNames(node.in_pins) \cap PinNames(node.out_pins) = {}

\* C19: in every node a factory created, the pin names are unique within
\* in_pins, unique within out_pins, and no name is in both arrays
C19_PinNamesUnique == \A node \in OwnNodes : C19_Check(node)

\* a factory created a node with several input pins and several output pins
C19_Witness ==
    /\ last.op = "create"
    /\ \E node \in OwnNodes : Len(node.in_pins) >= 2 /\ Len(node.out_pins) >= 2

(* ------------------------------------------------------------------ *)
(* C20                                                                 *)
(* ------------------------------------------------------------------ *)
\* the outcome of every factory call the model makes, made on gen
FactoryCalls(gen) ==
    UNION {
        { create_start_node(gen, name, position) : name \in StateNames, position \in Positions },
        { create_sequence(gen, position) : position \in Positions },
        { create_if_node(gen, position) : position \in Positions },
        { create_push_node(gen, target_state, position) : target_state \in StateNames, position \in Positions },
        { create_wait(gen, wait_time, position) : wait_time \in WaitTimes, position \in Positions },
        { create_enemy_list(gen, enemy_ids, position, 0, 0, FALSE) : enemy_ids \in EnemyIdLists, position \in Positions },
        { create_player_pos(gen, position) : position \in Positions },
        { create_point(gen, pt[1], pt[2], position) : pt \in Points, position \in Positions },
        { create_point_list(gen, <<pt>>, position, FALSE, "1.0") : pt \in Points, position \in Positions },
        { create_move_to(gen, position, FALSE, FALSE) : position \in Positions },
        { create_enter_portal(gen, position) : position \in Positions },
        { create_map_change(gen, "Nexus", position) : position \in Positions },
        { create_operator(gen, position, 0, "0.0") : position \in Positions },
        { create_comparison(gen, position, 0, "0.0") : position \in Positions },
        { create_save_pos(gen, position, FALSE) : position \in Positions },
        { create_use_item(gen, 2594, position) : position \in Positions },
        { create_send_message(gen, "ready", position, 0) : position \in Positions },
        { create_received_message(gen, "leader", "ready", position) : position \in Positions },
        { create_group(gen, position, "0.1", "15.0") : position \in Positions },
        { create_hotkey(gen, position) : position \in Positions },
        { create_player_count(gen, position, TRUE) : position \in Positions },
        { create_status_level(gen, position, 0) : position \in Positions },
        { create_switch_server(gen, position) : position \in Positions },
        { create_connect_to_quest(gen, position, 85) : position \in Positions },
        { create_nexus(gen, position) : position \in Positions },
        { create_reset_tile_cache(gen, position) : position \in Positions },
        { create_offset_pos(gen, position, "1.0") : position \in Positions } }

\* factory calls with other parameter values: a negative or zero number, an
\* empty string, an empty list, the flags set
OtherFactoryCalls(gen) ==
    UNION {
        { create_start_node(gen, "", position) : position \in Positions },
        { create_push_node(gen, "", position) : position \in Positions },
        { create_wait(gen, 0, position) : position \in Positions },
        { create_enemy_list(gen, <<100, 100>>, position, 1, 1, TRUE) : position \in Positions },
        { create_point(gen, -1, -1, position) : position \in Positions },
        { create_point_list(gen, <<>>, position, TRUE, "-1.0") : position \in Positions },
        { create_move_to(gen, position, TRUE, TRUE) : position \in Positions },
        { create_map_change(gen, "", position) : position \in Positions },
        { create_operator(gen, position, -1, "-1.0") : position \in Positions },
        { create_comparison(gen, position, 2, "10.0") : position \in Positions },
        { create_save_pos(gen, position, TRUE) : position \in Positions },
        { create_use_item(gen, -1, position) : position \in Positions },
        { create_send_message(gen, "", position, -5) : position \in Positions },
        { create_received_message(gen, "", "", position) : position \in Positions },
        { create_group(gen, position, "-0.1", "0.0") : position \in Positions },
        { create_player_count(gen, position, FALSE) : position \in Positions },
        { create_status_level(gen, position, -1) : position \in Positions },
        { create_connect_to_quest(gen, position, -1) : position \in Positions },
        { create_offset_pos(gen, position, "-2.5") : position \in Positions } }

\* the pin names and types of a node, input pins then output pins
NamesAndTypes(pins) == [i \in 1..Len(pins) |-> <<pins[i].name, pins[i].pin_type>>]
Signature(node) == <<NamesAndTypes(node.in_pins), NamesAndTypes(node.out_pins)>>

\* r is the outcome of a factory call on gen: one node appended and returned,
\* its pins the next ids in order, the links and the earlier nodes untouched
C20_Frame(gen, r) ==
    /\ r.gen.nodes = Append(gen.nodes, r.node)
    /\ r.gen.links = gen.links
    /\ PinIds(r.node.in_pins \o r.node.out_pins) =
           [i \in 1..(Len(r.node.in_pins) + Len(r.node.out_pins)) |-> gen.current_id + i]
    /\ r.gen.current_id = gen.current_id + Len(r.node.in_pins) + Len(r.node.out_pins)

\* the calls of one kind allocate the same pin names and types
C20_FixedPins(calls) ==
    \A r1 \in calls, r2 \in calls :
        r1.node.node_type = r2.node.node_type => Signature(r1.node) = Signature(r2.node)

C20_Check(gen, calls) ==
    /\ \A r \in calls : C20_Frame(gen, r)
    /\ C20_FixedPins(calls)

\* C20: every factory call, whatever its parameter values, appends exactly
\* one node and returns it, allocates the pin names and types of its kind and
\* no others, and leaves the links list and the earlier nodes unchanged
C20_FactoryAppendsOneNode ==
    C20_Check(gens[Own], FactoryCalls(gens[Own]) \cup OtherFactoryCalls(gens[Own]))

\* the factories are called on a graph that holds nodes and links already:
\* the factories of a pattern made the nodes, its link calls the links
C20_Witness ==
    /\ last.op = "pattern"
    /\ Len(gens[Own].nodes) >= 2
    /\ Len(gens[Own].links) >= 1

(* ------------------------------------------------------------------ *)
(* Nodes built by the caller                                           *)
(* ------------------------------------------------------------------ *)
\* Node and Pin are public dataclasses: a caller can hand link_pins a node
\* it built itself, Node("Custom", (0, 0), in_pins=[Pin(i, name)],
\* out_pins=[Pin(o, name)]), whose two arrays carry the same pin name
HandBuilt(name, in_id, out_id) ==
    Node("Custom", <<0, 0>>, <<Pin(in_id, name, PT_EXECUTION)>>,
         <<Pin(out_id, name, PT_EXECUTION)>>, EmptyConfig)

\* two such nodes; the second carries the ids of the first in the other arrays
HandBuiltNodes == {HandBuilt("X", 1, 2), HandBuilt("Y", 2, 1)}

\* link_pins on g with at least one node the caller built
LinkPinsHandBuilt(g) ==
    \E r \in LinkOutcomes(gens[g], HandBuiltNodes, HandBuiltNodes \cup NodesOf(gens[g]))
             \cup LinkOutcomes(gens[g], NodesOf(gens[g]), HandBuiltNodes) :
        /\ r.err = OK => Len(gens[g].links) < MaxHandBuiltLinks
        /\ gens' = [gens EXCEPT ![g] = r.gen]
        /\ last' = [op |-> "link_pins", gen |-> g, err |-> r.err]
        /\ UNCHANGED <<issued, file, threads, overlapped>>

\* one generator whose link_pins is called with nodes of its factories and
\* with nodes the caller built
NextHandBuilt ==
    \/ CreateWait(Own)
    \/ LinkPinsHandBuilt(Own)

SpecHandBuilt == Init /\ [][NextHandBuilt]_vars

(* ------------------------------------------------------------------ *)
(* C21                                                                 *)
(* ------------------------------------------------------------------ *)
\* the nodes link_pins can be handed in the current state
AvailableNodes == OwnNodes \cup HandBuiltNodes

\* the first pin of the list that carries the name
FirstNamed(pins, name) == pins[CHOOSE i \in 1..Len(pins) :
                                   /\ pins[i].name = name
                                   /\ \A j \in 1..(i - 1) : pins[j].name # name]

\* the pin a lookup in the order "output array, then input array" names
OutputFirst(node, name) ==
    IF HasOut(node, name)
    THEN [pin |-> FirstNamed(node.out_pins, name), is_out |-> TRUE]
    ELSE [pin |-> FirstNamed(node.in_pins, name), is_out |-> FALSE]

\* the pin a lookup in the order "input array, then output array" names
InputFirst(node, name) ==
    IF HasIn(node, name)
    THEN [pin |-> FirstNamed(node.in_pins, name), is_out |-> FALSE]
    ELSE [pin |-> FirstNamed(node.out_pins, name), is_out |-> TRUE]

\* the call appended exactly the link left -> right, or refused it as present
LinkedOrPresent(r, left, right) ==
    IF Link(left.id, right.id) \in Range(gens[Own].links)
    THEN r.err = DuplicateLink /\ r.gen = gens[Own]
    ELSE r.err = OK /\ r.gen.links = Append(gens[Own].links, Link(left.id, right.id))

\* the outcome r of a call is the outcome for the pins src and tgt
OutcomeFor(r, src, tgt) ==
    IF src.pin.pin_type # tgt.pin.pin_type THEN r.err = TypeMismatch
    ELSE IF src.is_out = tgt.is_out THEN r.err = InvalidLinkShape
    ELSE IF src.is_out THEN LinkedOrPresent(r, src.pin, tgt.pin)
    ELSE LinkedOrPresent(r, tgt.pin, src.pin)

\* the claim as stated: both sides are looked up output array first
C21_OriginalBody(s, a, t, b) ==
    (Has(s, a) /\ Has(t, b)) =>
        OutcomeFor(Call(s, a, t, b), OutputFirst(s, a), OutputFirst(t, b))

C21_OutputFirstOnBothSides ==
    \A s \in AvailableNodes, t \in AvailableNodes :
        \A a \in NamesFor(s), b \in NamesFor(t) : C21_OriginalBody(s, a, t, b)

C21_Body(s, a, t, b) ==
    (Has(s, a) /\ Has(t, b)) =>
        OutcomeFor(Call(s, a, t, b), OutputFirst(s, a), InputFirst(t, b))

\* C21: the first argument pair of link_pins is resolved in the node's
\* out_pins first and then in its in_pins, the second argument pair in the
\* node's in_pins first and then in its out_pins: when a node carries the
\* name in both arrays, the first pair resolves to the output-array pin and
\* the second pair to the input-array pin, and the link made joins these two
C21_SourceOutputFirstTargetInputFirst ==
    [](\A s \in AvailableNodes, t \in AvailableNodes :
           \A a \in NamesFor(s), b \in NamesFor(t) : C21_Body(s, a, t, b))

\* a call whose two sides name a node carrying the name in both arrays
\* succeeded: its link runs from the output pin of the first to the input
\* pin of the second
C21_Witness ==
    /\ LastLinkPins(OK)
    /\ Len(gens[Own].links) >= 1
    /\ \E s \in HandBuiltNodes, t \in HandBuiltNodes :
           \E a \in NamesFor(s), b \in NamesFor(t) :
               /\ HasOut(s, a) /\ HasIn(s, a) /\ HasOut(t, b) /\ HasIn(t, b)
               /\ gens[Own].links[Len(gens[Own].links)]
                      = Link(FirstNamed(s.out_pins, a).id, FirstNamed(t.in_pins, b).id)

(* ------------------------------------------------------------------ *)
(* C22                                                                 *)
(* ------------------------------------------------------------------ *)
\* the two named pins have one type and lie in arrays of different classes:
\* the call passes the type check and the shape check
PassesTypeAndShape(s, a, t, b) ==
    /\ Has(s, a) /\ Has(t, b)
    /\ OutputFirst(s, a).pin.pin_type = InputFirst(t, b).pin.pin_type
    /\ OutputFirst(s, a).is_out # InputFirst(t, b).is_out

\* the (left, right) pair of ids such a call compares and stores
PairOf(s, a, t, b) ==
    IF OutputFirst(s, a).is_out
    THEN <<OutputFirst(s, a).pin.id, InputFirst(t, b).pin.id>>
    ELSE <<InputFirst(t, b).pin.id, OutputFirst(s, a).pin.id>>

HasLink(gen, left_id, right_id) == Link(left_id, right_id) \in Range(gen.links)

C22_Check(r, pair) ==
    /\ r.err = DuplicateLink <=> HasLink(gens[Own], pair[1], pair[2])
    /\ (HasLink(gens[Own], pair[2], pair[1]) /\ ~HasLink(gens[Own], pair[1], pair[2]))
           => /\ r.err = OK
              /\ HasLink(r.gen, pair[1], pair[2])
              /\ HasLink(r.gen, pair[2], pair[1])

C22_Body(s, a, t, b) ==
    PassesTypeAndShape(s, a, t, b) => C22_Check(Call(s, a, t, b), PairOf(s, a, t, b))

\* C22: a call that passes the type and shape checks is refused as a
\* duplicate exactly when its own ordered (left, right) pair is in the links
\* list: when only the reversed pair (right, left) is there the call
\* succeeds, and afterwards the list holds both
C22_OnlyExactPairIsDuplicate ==
    [](\A s \in AvailableNodes, t \in AvailableNodes :
           \A a \in NamesFor(s), b \in NamesFor(t) : C22_Body(s, a, t, b))

\* the links list holds a pair and its reverse, the second added by a
\* successful call
C22_Witness ==
    /\ LastLinkPins(OK)
    /\ \E j \in 1..Len(gens[Own].links), k \in 1..Len(gens[Own].links) :
           /\ j < k
           /\ k = Len(gens[Own].links)
           /\ gens[Own].links[j].left_pin_id = gens[Own].links[k].right_pin_id
           /\ gens[Own].links[j].right_pin_id = gens[Own].links[k].left_pin_id

(* ------------------------------------------------------------------ *)
(* C23                                                                 *)
(* ------------------------------------------------------------------ *)
\* the link from the named output of one node to the named input of another
FromTo(src, out_name, dst, in_name) ==
    Link(IdNamed(src.out_pins, out_name), IdNamed(dst.in_pins, in_name))

NexusKinds ==
    <<"MapChange", "Wait", "Point", "MoveTo", "EnemyList", "If", "MoveTo", "EnterPortal">>

NexusRoles ==
    <<"map_change", "wait", "spawn_point", "move_to_spawn", "portal_detector",
      "if_portal", "move_to_portal", "enter_portal">>

\* the nine links of the pattern over its eight nodes n, execution links
\* first: an execution link runs from the Out of the later step to the input
\* of the step before it
NexusLinks(n) ==
    << FromTo(n[2], "Out", n[1], "In"),
       FromTo(n[4], "Out", n[2], "In"),
       FromTo(n[6], "Out", n[4], "In"),
       FromTo(n[7], "Out", n[6], "True"),
       FromTo(n[8], "Out", n[7], "In"),
       FromTo(n[3], "Pos", n[4], "Position"),
       FromTo(n[5], "Exists", n[6], "Condition"),
       FromTo(n[5], "Pos", n[7], "Position"),
       FromTo(n[5], "ID", n[8], "Portal ID") >>

\* r is the outcome of create_nexus_leave on gen, added the nodes it appended
C23_Check(gen, r, added) ==
    /\ r.err = OK
    /\ r.gen.nodes = gen.nodes \o added
    /\ Len(added) = 8
    /\ [i \in 1..8 |-> added[i].node_type] = NexusKinds
    /\ Len(r.gen.links) = Len(gen.links) + 9
    /\ r.gen.links = gen.links \o NexusLinks(added)
    /\ \A k \in 1..Len(r.gen.links) :
           r.gen.links[k].right_pin_id # IdNamed(added[6].in_pins, "False")
    /\ DOMAIN r.nodes = Range(NexusRoles)
    /\ \A i \in 1..8 : r.nodes[NexusRoles[i]] = added[i]

C23_Call(position, pt) ==
    C23_Check(gens[Own],
              create_nexus_leave(gens[Own], position, pt, 1810, 500),
              Appended(gens[Own], create_nexus_leave(gens[Own], position, pt, 1810, 500).gen))

\* C23: create_nexus_leave appends exactly eight nodes (MapChange, Wait,
\* Point, MoveTo, EnemyList, If, MoveTo, EnterPortal) and exactly nine links,
\* the five execution links of the chain map change, wait, move to spawn,
\* branch (True), move to portal, enter portal and the four data links; no
\* link ends in the False pin of the If node, and the returned bundle binds
\* the eight roles to the eight nodes
C23_NexusLeaveEightNodesNineLinks ==
    [](\A position \in Positions, pt \in Points : C23_Call(position, pt))

\* create_nexus_leave was called on a builder that held nodes and links of
\* an earlier pattern
C23_Witness ==
    /\ last.op = "pattern"
    /\ last.err = OK
    /\ Len(gens[Own].nodes) > 8
    /\ Len(gens[Own].links) > 9
    /\ LET n == Len(gens[Own].nodes)
           added == SubSeq(gens[Own].nodes, n - 7, n)
       IN  /\ [i \in 1..8 |-> added[i].node_type] = NexusKinds
           /\ SubSeq(gens[Own].links, Len(gens[Own].links) - 8, Len(gens[Own].links))
                  = NexusLinks(added)

(* ------------------------------------------------------------------ *)
(* C24                                                                 *)
(* ------------------------------------------------------------------ *)
ClearMobsRoles ==
    {"start", "patrol_move", "patrol_points", "enemy_check", "enemy_finder",
     "enemy_offset", "enemy_move", "patrol_fallback"}

PortalRoles == {"portal_check", "portal_finder", "portal_move", "portal_enter"}

\* the links both shapes of the pattern have, over the bundle n: the patrol
\* move fed by the patrol points and chained to the start, the enemy check
\* fed by the finder, its True pin leading to the move fed by the offset of
\* the enemy position, its False pin to the fallback move fed by the same
\* patrol points
ClearMobsLinks(n) ==
    { FromTo(n["patrol_points"], "Pos", n["patrol_move"], "Position"),
      FromTo(n["patrol_move"], "Out", n["start"], "In"),
      FromTo(n["enemy_finder"], "Exists", n["enemy_check"], "Condition"),
      FromTo(n["enemy_finder"], "Pos", n["enemy_offset"], "Pos"),
      FromTo(n["enemy_offset"], "Result", n["enemy_move"], "Position"),
      FromTo(n["enemy_move"], "Out", n["enemy_check"], "True"),
      FromTo(n["patrol_points"], "Pos", n["patrol_fallback"], "Position"),
      FromTo(n["patrol_fallback"], "Out", n["enemy_check"], "False") }

\* the links of the portal branch: the patrol move chains to the portal
\* check, whose True pin leads to the move to the portal and on to the portal
\* entry, and whose False pin leads to the enemy check
PortalLinks(n) ==
    { FromTo(n["portal_check"], "Out", n["patrol_move"], "In"),
      FromTo(n["portal_finder"], "Exists", n["portal_check"], "Condition"),
      FromTo(n["portal_finder"], "Pos", n["portal_move"], "Position"),
      FromTo(n["portal_finder"], "ID", n["portal_enter"], "Portal ID"),
      FromTo(n["portal_move"], "Out", n["portal_check"], "True"),
      FromTo(n["portal_enter"], "Out", n["portal_move"], "In"),
      FromTo(n["enemy_check"], "Out", n["portal_check"], "False") }

\* without the portal branch the patrol move chains to the enemy check
DirectLinks(n) == { FromTo(n["enemy_check"], "Out", n["patrol_move"], "In") }

\* the links a call appended to gen, given the generator it left
AppendedLinks(gen, after) ==
    {after.links[k] : k \in (Len(gen.links) + 1)..Len(after.links)}

ClearMobsKinds(n) ==
    /\ n["start"].node_type = "Start"
    /\ n["patrol_move"].node_type = "MoveTo"
    /\ n["patrol_points"].node_type = "PointList"
    /\ n["enemy_check"].node_type = "If"
    /\ n["enemy_finder"].node_type = "EnemyList"
    /\ n["enemy_offset"].node_type = "OffsetPos"
    /\ n["enemy_move"].node_type = "MoveTo"
    /\ n["patrol_fallback"].node_type = "MoveTo"

PortalKinds(n) ==
    /\ n["portal_check"].node_type = "If"
    /\ n["portal_finder"].node_type = "EnemyList"
    /\ n["portal_move"].node_type = "MoveTo"
    /\ n["portal_enter"].node_type = "EnterPortal"

\* r is the outcome of create_clear_mobs on gen; with_portal tells whether
\* the portal branch is expected
ClearMobsShape(gen, r, with_portal) ==
    /\ r.err = OK
    /\ SubSeq(r.gen.nodes, 1, Len(gen.nodes)) = gen.nodes
    /\ SubSeq(r.gen.links, 1, Len(gen.links)) = gen.links
    /\ Range(Appended(gen, r.gen)) = {r.nodes[role] : role \in DOMAIN r.nodes}
    /\ ClearMobsKinds(r.nodes)
    /\ IF with_portal
       THEN /\ DOMAIN r.nodes = ClearMobsRoles \cup PortalRoles
            /\ Len(Appended(gen, r.gen)) = 12
            /\ PortalKinds(r.nodes)
            /\ Len(r.gen.links) = Len(gen.links) + 15
            /\ AppendedLinks(gen, r.gen) = ClearMobsLinks(r.nodes) \cup PortalLinks(r.nodes)
       ELSE /\ DOMAIN r.nodes = ClearMobsRoles
            /\ Len(Appended(gen, r.gen)) = 8
            /\ Len(r.gen.links) = Len(gen.links) + 9
            /\ AppendedLinks(gen, r.gen) = ClearMobsLinks(r.nodes) \cup DirectLinks(r.nodes)

ClearMobsCall(portal_id, pt, position) ==
    create_clear_mobs(gens[Own], <<100>>, portal_id, <<pt>>, position, "2.5")

\* the claim as stated: the portal branch is built whenever a portal id is
\* given, whatever the id
C24_PortalBranchWheneverIdGiven ==
    \A portal_id \in PortalIds, pt \in Points, position \in Positions :
        ClearMobsShape(gens[Own], ClearMobsCall(portal_id, pt, position),
                       portal_id # None)

\* C24: create_clear_mobs builds the portal branch exactly when a portal id
\* other than 0 is given: then the patrol move chains to a portal check whose
\* True pin leads to move-to-portal and enter-portal and whose False pin
\* leads to the enemy check; with no portal id, or with the id 0, the patrol
\* move chains to the enemy check and no portal node or link is made.  Either
\* way the enemy check's True pin leads to a move fed by the offset of the
\* enemy position and its False pin to a fallback move fed by the patrol
\* point list of the first patrol move
C24_PortalBranchOnlyForNonZeroId ==
    [](\A portal_id \in PortalIds, pt \in Points, position \in Positions :
           ClearMobsShape(gens[Own], ClearMobsCall(portal_id, pt, position),
                          portal_id # None /\ portal_id # Some(0)))

\* create_clear_mobs was called with a portal id on a builder that held
\* nodes already: the graph ends with the twelve nodes of the pattern
C24_Witness ==
    /\ last.op = "pattern"
    /\ last.err = OK
    /\ Len(gens[Own].nodes) > 12
    /\ LET n == Len(gens[Own].nodes)
       IN  /\ gens[Own].nodes[n - 11].node_type = "Start"
           /\ gens[Own].nodes[n - 11].config = ("nodeName" :> "clear_mobs")
           /\ gens[Own].nodes[n - 5].node_type = "EnterPortal"
           /\ gens[Own].nodes[n].node_type = "MoveTo"

(* ------------------------------------------------------------------ *)
(* C25                                                                 *)
(* ------------------------------------------------------------------ *)
\* the two named pins exist and differ in type
TypesDiffer(s, a, t, b) ==
    /\ Has(s, a) /\ Has(t, b)
    /\ OutputFirst(s, a).pin.pin_type # InputFirst(t, b).pin.pin_type

\* the pair of ids a call with the resolved pins src and tgt compares
StoredPair(gen, src, tgt) ==
    IF src.is_out THEN HasLink(gen, src.pin.id, tgt.pin.id)
    ELSE HasLink(gen, tgt.pin.id, src.pin.id)

\* r is the outcome of a call whose two pins src and tgt were found
C25_Resolved(r, src, tgt) ==
    /\ r.err # PinNotFound
    /\ src.pin.pin_type # tgt.pin.pin_type => r.err = TypeMismatch
    /\ r.err = InvalidLinkShape =>
           /\ src.pin.pin_type = tgt.pin.pin_type
           /\ src.is_out = tgt.is_out
    /\ r.err = DuplicateLink =>
           /\ src.pin.pin_type = tgt.pin.pin_type
           /\ src.is_out # tgt.is_out
           /\ StoredPair(gens[Own], src, tgt)

\* r is the outcome of link_pins(s, a, t, b): the first failing check of the
\* order resolution, type, shape, duplicate is the one reported
C25_Check(r, s, a, t, b) ==
    IF ~Has(s, a) \/ ~Has(t, b) THEN r.err = PinNotFound
    ELSE \A src \in {OutputFirst(s, a)}, tgt \in {InputFirst(t, b)} :
             C25_Resolved(r, src, tgt)

C25_Body(s, a, t, b) == \A r \in {Call(s, a, t, b)} : C25_Check(r, s, a, t, b)

\* C25: link_pins reports the first failing check of the order resolution,
\* type, shape, duplicate: a call with a missing pin fails with PinNotFound
\* whatever the other pin is, a call whose resolved pins differ in type
\* fails with TypeMismatch whatever their arrays, the shape error is reported
\* only for pins of one type, and DuplicateLink only for a stored pair whose
\* pins passed the type and the shape check
C25_FirstFailingCheckReported ==
    [](ForAllCalls(C25_Body))

\* a missing pin against a pin of another node kind, two pins of one array
\* with different types, and a stored pair
C25_MissingAgainstAny(s, a, t, b) == ~Has(s, a) /\ Has(t, b)
C25_SameArrayOtherType(s, a, t, b) ==
    /\ TypesDiffer(s, a, t, b)
    /\ OutputFirst(s, a).is_out = InputFirst(t, b).is_out
C25_Stored(s, a, t, b) == Call(s, a, t, b).err = DuplicateLink

\* a call failed on the type check on a generator that holds a link, and in
\* this state calls of each of the three kinds above can be made
C25_Witness ==
    /\ LastLinkPins(TypeMismatch)
    /\ Len(gens[Own].links) >= 1
    /\ ForSomeCall(C25_MissingAgainstAny)
    /\ ForSomeCall(C25_SameArrayOtherType)
    /\ ForSomeCall(C25_Stored)

(* ------------------------------------------------------------------ *)
(* Factory calls from several threads                                  *)
(* ------------------------------------------------------------------ *)
\* Nothing in StateGenerator locks: a factory call made by a thread runs
\* get_next_id once per pin, and each get_next_id is a read of current_id,
\* an addition, a write-back and a second read for the value returned,
\* between which another thread may run.  threads[t].node is the node the
\* factory is building (its pin names and types), threads[t].ids the ids
\* get_next_id has returned to it so far, threads[t].reg the value the
\* running get_next_id holds.
PinCount(node) == Len(node.in_pins) + Len(node.out_pins)

\* the factory calls the threads make: the node each would build
ThreadCalls(gen) ==
    { create_wait(gen, 500, <<0, 0>>).node,
      create_push_node(gen, "farm_clear", <<0, 0>>).node }

\* the pins of the list, the i-th with id ids[offset + i]
WithIds(pins, ids, offset) ==
    [i \in 1..Len(pins) |-> Pin(ids[offset + i], pins[i].name, pins[i].pin_type)]

\* the node of the call with the ids it was given: the in_pins list is built
\* first, then the out_pins list
BuiltNode(node, ids) ==
    Node(node.node_type, node.position, WithIds(node.in_pins, ids, 0),
         WithIds(node.out_pins, ids, Len(node.in_pins)), node.config)

Running == {t \in Threads : threads[t].pc # "idle"}

ThreadStep(t, next) ==
    /\ threads' = [threads EXCEPT ![t] = next]
    /\ last' = [op |-> "thread", gen |-> Own, err |-> OK]
    /\ UNCHANGED file

\* thread t enters a factory
ThreadCall(t) ==
    /\ threads[t].pc = "idle"
    /\ Len(gens[Own].nodes) + Cardinality(Running) < MaxThreadCalls
    /\ \E node \in ThreadCalls(gens[Own]) :
           ThreadStep(t, [pc |-> "read", node |-> node, ids |-> <<>>, reg |-> 0])
    /\ overlapped' = (overlapped \/ Running # {})
    /\ UNCHANGED <<gens, issued>>

\* get_next_id: the read of self.current_id
ThreadRead(t) ==
    /\ threads[t].pc = "read"
    /\ ThreadStep(t, [threads[t] EXCEPT !.pc = "increment",
                                        !.reg = read_current_id(gens[Own])])
    /\ UNCHANGED <<gens, issued, overlapped>>

\* get_next_id: the addition
ThreadIncrement(t) ==
    /\ threads[t].pc = "increment"
    /\ ThreadStep(t, [threads[t] EXCEPT !.pc = "write", !.reg = increment(@)])
    /\ UNCHANGED <<gens, issued, overlapped>>

\* get_next_id: the write-back to self.current_id
ThreadWrite(t) ==
    /\ threads[t].pc = "write"
    /\ gens' = [gens EXCEPT ![Own] = write_back(@, threads[t].reg)]
    /\ ThreadStep(t, [threads[t] EXCEPT !.pc = "return"])
    /\ UNCHANGED <<issued, overlapped>>

\* get_next_id: "return self.current_id", and the Pin made of it; the next
\* pin follows, or the node is complete
ThreadReturn(t) ==
    /\ threads[t].pc = "return"
    /\ ThreadStep(t, [threads[t] EXCEPT
                          !.ids = Append(@, read_current_id(gens[Own])),
                          !.pc = IF Len(threads[t].ids) + 1 < PinCount(threads[t].node)
                                 THEN "read" ELSE "append"])
    /\ issued' = [issued EXCEPT ![Own] = Append(@, read_current_id(gens[Own]))]
    /\ UNCHANGED <<gens, overlapped>>

\* self.nodes.append(node); return node
ThreadAppend(t) ==
    /\ threads[t].pc = "append"
    /\ gens' = [gens EXCEPT ![Own].nodes =
                    Append(@, BuiltNode(threads[t].node, threads[t].ids))]
    /\ ThreadStep(t, IdleThread)
    /\ UNCHANGED <<issued, overlapped>>

\* two threads that call factories of one generator with no lock around them
NextThreads ==
    \E t \in Threads :
        \/ ThreadCall(t)
        \/ ThreadRead(t)
        \/ ThreadIncrement(t)
        \/ ThreadWrite(t)
        \/ ThreadReturn(t)
        \/ ThreadAppend(t)

SpecThreads == Init /\ [][NextThreads]_vars

(* ------------------------------------------------------------------ *)
(* C26                                                                 *)
(* ------------------------------------------------------------------ *)
\* the ids of the pins of the registered nodes, followed by the ids handed
\* to the calls that are still running
PinIdsHeld ==
    PinIds(PinsInOrder(gens[Own].nodes)) \o threads["t1"].ids \o threads["t2"].ids

Distinct(seq) == \A i \in 1..Len(seq), j \in 1..Len(seq) : i # j => seq[i] # seq[j]

\* C26: as long as every factory call on the generator started after the
\* calls before it had returned, no two pins carry the same id
C26_SerializedCallsDistinctIds ==
    ~overlapped => Distinct(PinIdsHeld)

\* two factory calls interleaved inside get_next_id, both have returned, and
\* two pins of the registered nodes carry the same id
C26_Witness ==
    /\ overlapped
    /\ Running = {}
    /\ Len(gens[Own].nodes) = 2
    /\ ~Distinct(PinIds(PinsInOrder(gens[Own].nodes)))

(* ------------------------------------------------------------------ *)
(* C27                                                                 *)
(* ------------------------------------------------------------------ *)
\* the counter stands at the number of pins of the registered nodes, and
\* their ids, node by node in creation order, inputs before outputs, count
\* up from the base without a gap
C27_CounterCountsPins ==
    /\ gens[Own].current_id - BASE_ID = Len(PinsInOrder(gens[Own].nodes))
    /\ PinIds(PinsInOrder(gens[Own].nodes))
           = [i \in 1..Len(PinsInOrder(gens[Own].nodes)) |-> BASE_ID + i]

\* a link_pins call, failed or not, and a generate call leave the counter and
\* the pins alone
C27_NoIdConsumed ==
    last'.op \in {"link_pins", "generate"} =>
        /\ gens'[Own].current_id = gens[Own].current_id
        /\ gens'[Own].nodes = gens[Own].nodes
        /\ issued' = issued

\* in every state of a generator current_id minus 50000 is the number of
\* pins of the registered nodes, the pin ids read in creation order are
\* 50001, 50002, ... without a gap, and neither link_pins, failing or not,
\* nor generate consumes an id
C27_CounterIsPinCount ==
    /\ []C27_CounterCountsPins
    /\ [][C27_NoIdConsumed]_vars

\* the counter stands at the number of ids get_next_id has returned: one for
\* each pin of the registered nodes and one for each direct call; the pins
\* carry returned ids, increasing node by node in creation order, inputs
\* before outputs, and without a gap when no direct call was made
C27_CounterCountsIds ==
    /\ gens[Own].current_id - BASE_ID = Len(PinsInOrder(gens[Own].nodes)) + BareIds(Own)
    /\ issued[Own] = [i \in 1..Len(issued[Own]) |-> BASE_ID + i]
    /\ \A ids \in {PinIds(PinsInOrder(gens[Own].nodes))} :
           /\ \A i \in 1..Len(ids) - 1 : ids[i] < ids[i + 1]
           /\ Range(ids) \subseteq Range(issued[Own])
    /\ BareIds(Own) = 0 => C27_CounterCountsPins

\* C27: in every state of a generator current_id minus 50000 is the number
\* of pins of the registered nodes plus the number of direct get_next_id
\* calls, the pin ids read in creation order are increasing ids of
\* 50001..current_id, without a gap when get_next_id was never called
\* directly, and neither link_pins, failing or not, nor generate consumes
\* an id
C27_CounterIsIdsReturned ==
    /\ []C27_CounterCountsIds
    /\ [][C27_NoIdConsumed]_vars

\* a link_pins call failed as a duplicate, after one that succeeded, on a
\* generator whose nodes hold pins and whose caller drew an id directly
C27_Witness ==
    /\ LastLinkPins(DuplicateLink)
    /\ Len(gens[Own].links) >= 1
    /\ Len(PinsInOrder(gens[Own].nodes)) >= 2
    /\ BareIds(Own) >= 1
    /\ gens[Own].current_id = BASE_ID + Len(PinsInOrder(gens[Own].nodes)) + BareIds(Own)

(* ------------------------------------------------------------------ *)
(* C28                                                                 *)
(* ------------------------------------------------------------------ *)
\* the outcomes of every pattern call that can be made on gen
PatternCalls(gen) ==
    {create_find_target(gen, enemy_ids, position, 0) :
         enemy_ids \in EnemyIdLists, position \in Positions}
    \cup {create_move_to_target(gen, position, FALSE, offset_dist) :
              position \in Positions, offset_dist \in OffsetDists}
    \cup {create_portal_entry(gen, position) : position \in Positions}
    \cup {create_distance_check(gen, pt, position, threshold) :
              pt \in Points, position \in Positions, threshold \in Thresholds}
    \cup {create_patrol(gen, <<pt>>, position, "2.0") :
              pt \in Points, position \in Positions}
    \cup {create_beacon_search(gen, 100, pt, next_state, position, threshold) :
              pt \in Points, next_state \in StateNames, position \in Positions,
              threshold \in Thresholds}
    \cup {create_clear_mobs(gen, <<100>>, portal_id, <<pt>>, position, "2.5") :
              portal_id \in PortalIds, pt \in Points, position \in Positions}
    \cup {create_nexus_leave(gen, position, pt, 1810, 500) :
              pt \in Points, position \in Positions}

\* r is the outcome of a pattern call on gen
C28_Check(gen, r) ==
    /\ r.err \notin LinkErrors
    /\ r.err = OK
    /\ r.gen.nodes = gen.nodes \o Appended(gen, r.gen)
    /\ SubSeq(r.gen.links, 1, Len(gen.links)) = gen.links
    /\ Appended(gen, r.gen) # <<>>
    /\ Range(Appended(gen, r.gen)) = {r.nodes[role] : role \in DOMAIN r.nodes}
    /\ Len(Appended(gen, r.gen)) = Cardinality(DOMAIN r.nodes)

\* C28: whatever patterns were called on the builder before, the same ones
\* with the same arguments included, every pattern call returns without a
\* link error, and the nodes it appended to the graph are exactly the nodes
\* its role bundle names
C28_PatternsCompose ==
    [](\A r \in PatternCalls(gens[Own]) : C28_Check(gens[Own], r))

\* the nexus-leave pattern was called twice on one builder
C28_Witness ==
    /\ last.op = "pattern"
    /\ last.err = OK
    /\ Len(gens[Own].nodes) = 16
    /\ Len(gens[Own].links) = 18
    /\ [i \in 1..8 |-> gens[Own].nodes[i].node_type] = NexusKinds
    /\ [i \in 1..8 |-> gens[Own].nodes[8 + i].node_type] = NexusKinds

(* ------------------------------------------------------------------ *)
(* StateGenerator.add_nexus_handler                                    *)
(* ------------------------------------------------------------------ *)
\* Entity IDs for Nexus: the class attributes of StateGenerator
REALM_PORTAL_ID == 1810
NEXUS_SPAWN_POINT == <<127, 170>>

\* a handler that waits twice as long as the pattern's default
add_nexus_handler_slow(gen, base_x, base_y) ==
    finish(run(Begin(gen), <<
        <<"add", "map_change", <<"create_map_change", "Nexus", <<base_x, base_y>>>>>>,
        <<"add", "wait", <<"create_wait", 1000, <<base_x - 200, base_y>>>>>>,
        <<"add", "spawn_point",
          <<"create_point", NEXUS_SPAWN_POINT[1], NEXUS_SPAWN_POINT[2],
            <<base_x - 400, base_y + 150>>>>>>,
        <<"add", "move_to_spawn", <<"create_move_to", <<base_x - 400, base_y>>, FALSE, FALSE>>>>,
        <<"add", "portal_detector",
          <<"create_enemy_list", <<REALM_PORTAL_ID>>, <<base_x - 800, base_y + 100>>,
            1, 0, FALSE>>>>,
        <<"add", "if_portal", <<"create_if_node", <<base_x - 600, base_y>>>>>>,
        <<"add", "move_to_portal", <<"create_move_to", <<base_x - 800, base_y>>, FALSE, FALSE>>>>,
        <<"add", "enter_portal", <<"create_enter_portal", <<base_x - 1000, base_y>>>>>>,
        <<"link", "map_change", "In", "wait", "Out">>,
        <<"link", "wait", "In", "move_to_spawn", "Out">>,
        <<"link", "move_to_spawn", "In", "if_portal", "Out">>,
        <<"link", "if_portal", "True", "move_to_portal", "Out">>,
        <<"link", "move_to_portal", "In", "enter_portal", "Out">>,
        <<"link", "spawn_point", "Pos", "move_to_spawn", "Position">>,
        <<"link", "portal_detector", "Exists", "if_portal", "Condition">>,
        <<"link", "portal_detector", "Pos", "move_to_portal", "Position">>,
        <<"link", "portal_detector", "ID", "enter_portal", "Portal ID">> >>))

\* add_nexus_handler: the eight factory calls bound to the local names, the
\* five execution links, the four data links, and the dict returned under
\* the names of the locals
add_nexus_handler(gen, base_x, base_y) ==
    finish(run(Begin(gen), <<
        <<"add", "map_change", <<"create_map_change", "Nexus", <<base_x, base_y>>>>>>,
        <<"add", "wait", <<"create_wait", 500, <<base_x - 200, base_y>>>>>>,
        <<"add", "spawn_point",
          <<"create_point", NEXUS_SPAWN_POINT[1], NEXUS_SPAWN_POINT[2],
            <<base_x - 400, base_y + 150>>>>>>,
        <<"add", "move_to_spawn", <<"create_move_to", <<base_x - 400, base_y>>, FALSE, FALSE>>>>,
        <<"add", "portal_detector",
          <<"create_enemy_list", <<REALM_PORTAL_ID>>, <<base_x - 800, base_y + 100>>,
            1, 0, FALSE>>>>,
        <<"add", "if_portal", <<"create_if_node", <<base_x - 600, base_y>>>>>>,
        <<"add", "move_to_portal", <<"create_move_to", <<base_x - 800, base_y>>, FALSE, FALSE>>>>,
        <<"add", "enter_portal", <<"create_enter_portal", <<base_x - 1000, base_y>>>>>>,
        <<"link", "map_change", "In", "wait", "Out">>,
        <<"link", "wait", "In", "move_to_spawn", "Out">>,
        <<"link", "move_to_spawn", "In", "if_portal", "Out">>,
        <<"link", "if_portal", "True", "move_to_portal", "Out">>,
        <<"link", "move_to_portal", "In", "enter_portal", "Out">>,
        <<"link", "spawn_point", "Pos", "move_to_spawn", "Position">>,
        <<"link", "portal_detector", "Exists", "if_portal", "Condition">>,
        <<"link", "portal_detector", "Pos", "move_to_portal", "Position">>,
        <<"link", "portal_detector", "ID", "enter_portal", "Portal ID">> >>))

\* the positions add_nexus_handler is called with: the origin and its defaults
HandlerPositions == Positions \cup {<<400, -1400>>}

\* add_nexus_handler on generator g
AddNexusHandler(g) ==
    /\ Len(gens[g].nodes) < MaxBuilderNodes
    /\ \E position \in HandlerPositions :
           \E r \in {add_nexus_handler(gens[g], position[1], position[2])} :
               /\ gens' = [gens EXCEPT ![g] = r.gen]
               /\ issued' = [issued EXCEPT ![g] =
                                 @ \o PinIds(PinsInOrder(Appended(gens[g], r.gen)))]
               /\ last' = [op |-> "add_nexus_handler", gen |-> g, err |-> r.err]
               /\ UNCHANGED <<file, threads, overlapped>>

\* NexusLeavePattern(gen, spawn_point, portal_id, wait_time).build(x, y),
\* used directly, and the nodes dict it leaves
BuildNexusLeave(g) ==
    /\ Len(gens[g].nodes) < MaxBuilderNodes
    /\ \E position \in HandlerPositions :
           Patterned(g, finish(NexusLeavePattern_build(gens[g], NEXUS_SPAWN_POINT,
                                                       REALM_PORTAL_ID, 500,
                                                       position[1], position[2])))

\* one generator that gets Nexus blocks from both implementations, next to
\* nodes of other patterns
NextNexus ==
    \/ AddNexusHandler(Own)
    \/ BuildNexusLeave(Own)
    \/ PatternFindTarget(Own)
    \/ PatternWait(Own)

SpecNexus == Init /\ [][NextNexus]_vars

(* ------------------------------------------------------------------ *)
(* C29                                                                 *)
(* ------------------------------------------------------------------ *)
\* the outcome of the pattern class with the handler's constants
C29_Pattern(gen, x, y) ==
    finish(NexusLeavePattern_build(gen, <<127, 170>>, 1810, 500, x, y))

\* the two outcomes agree in the nodes (kinds, positions, pins with their
\* ids, configs) in order, in the links in order, in the counter and in the
\* role to node mapping
C29_Same(h, p) ==
    /\ h.err = OK /\ p.err = OK
    /\ h.gen.nodes = p.gen.nodes
    /\ h.gen.links = p.gen.links
    /\ h.gen.current_id = p.gen.current_id
    /\ DOMAIN h.nodes = DOMAIN p.nodes
    /\ \A role \in DOMAIN h.nodes : h.nodes[role] = p.nodes[role]

\* C29: from the same graph state, add_nexus_handler(x, y) and
\* NexusLeavePattern(spawn_point=(127.0, 170.0), portal_id=1810,
\* wait_time=500).build(x, y) give the same nodes in the same order, the
\* same links, the same id counter and the same role to node mapping
C29_NexusImplementationsAgree ==
    [](\A position \in HandlerPositions :
           \A h \in {add_nexus_handler(gens[Own], position[1], position[2])},
              p \in {C29_Pattern(gens[Own], position[1], position[2])} :
               C29_Same(h, p))

\* add_nexus_handler was called at its default position on a generator that
\* held nodes already
C29_Witness ==
    /\ last.op = "add_nexus_handler"
    /\ last.err = OK
    /\ Len(gens[Own].nodes) > 8
    /\ LET n == Len(gens[Own].nodes)
       IN  /\ [i \in 1..8 |-> gens[Own].nodes[n - 8 + i].node_type] = NexusKinds
           /\ gens[Own].nodes[n - 7].position = <<400, -1400>>

(* ------------------------------------------------------------------ *)
(* C30                                                                 *)
(* ------------------------------------------------------------------ *)
\* no two links end in the same pin: every input has at most one driver
SingleDriver(links) ==
    \A j \in 1..Len(links), k \in 1..Len(links) :
        j # k => links[j].right_pin_id # links[k].right_pin_id

\* the input pin a link ends in, with the node that owns it
InputOf(gen, link) ==
    LET node == gen.nodes[OwnerOf(gen, link.right_pin_id)]
    IN  [node |-> node,
         pin |-> CHOOSE p \in Range(node.in_pins) : p.id = link.right_pin_id]

\* link_pins accepts a link into the linked input from every other output of
\* its type, and the input then has two drivers
C30_SecondDriverAccepted(gen, input, driver_id) ==
    \A s \in NodesOf(gen) :
        \A out \in Range(s.out_pins) :
            (out.pin_type = input.pin.pin_type /\ out.id # driver_id) =>
                \A r \in {link_pins(gen, s, out.name, input.node, input.pin.name)} :
                    /\ r.err = OK
                    /\ r.gen.links = Append(gen.links, Link(out.id, input.pin.id))
                    /\ ~SingleDriver(r.gen.links)

\* C30: in a graph made by pattern calls alone every input pin is the right
\* pin of at most one link, while link_pins itself would accept a second
\* link into each linked input from any other output of the same type
C30_PatternsKeepSingleDriver ==
    [](/\ SingleDriver(gens[Own].links)
       /\ \A k \in 1..Len(gens[Own].links) :
              \A input \in {InputOf(gens[Own], gens[Own].links[k])} :
                  C30_SecondDriverAccepted(gens[Own], input,
                                           gens[Own].links[k].left_pin_id))

\* a pattern has run, and one output pin is the left pin of two links
C30_Witness ==
    /\ last.op = "pattern"
    /\ last.err = OK
    /\ \E j \in 1..Len(gens[Own].links), k \in 1..Len(gens[Own].links) :
           /\ j # k
           /\ gens[Own].links[j].left_pin_id = gens[Own].links[k].left_pin_id
           /\ gens[Own].links[j].right_pin_id # gens[Own].links[k].right_pin_id

====
